---- MODULE Spec2Model ----
(***************************************************************************)
(* A model of the USSR score server: the bounded expiring cache            *)
(* (server/caches/lru_cache.py), the score submission pipeline             *)
(* (server/scores/score.py, server/web/handlers/score_sub.py), the Stats   *)
(* objects (server/user/stats.py), the leaderboard request's checks        *)
(* (server/web/handlers/leaderboards.py) and the cached leaderboard.       *)
(***************************************************************************)
EXTENDS Integers, Sequences, FiniteSets, TLC

VARIABLES
    \* ---- Cache (lru_cache.py) ----
    _cache,         \* Cache._cache: the dict, as a sequence in insertion order
    _cache_limit,   \* Cache._cache_limit
    length,         \* Cache.length (seconds)
    now,            \* the clock read by get_timestamp()
    last,           \* the last Cache call: its name, key, argument, return
                    \* value, the dict as it was before the call and as it
                    \* was between the two maintenance steps
    \* ---- relational store ----
    scores,         \* the score tables: one sequence of rows, row id = index
    first_places,   \* the first_places table
    users_privs,    \* users.privileges, per player: is USER_PUBLIC set
    stats_sql,      \* the {prefix}_stats rows, per player
    rap_logs,       \* the rap_logs table: one row per edit_user call
    \* ---- process-local state ----
    priv_cache,     \* cache.priv: the cached privileges, per player
    announced,      \* number of first-place announcements sent
    stats_objs,     \* the Stats objects built so far (object id = index)
    stats_cache,    \* cache.stats_cache: per player and variant, the id of
                    \* the cached Stats object, or 0
    lb,             \* a cached leaderboard: its variant and score list
    \* ---- identity and beatmap records, and the caches the bus refreshes ----
    users_sql,      \* users: username, clan and password hash, per player
    bmap_sql,       \* beatmaps: the metadata (a revision number), per md5
    name,           \* cache.name: the cached username, per player
    clan,           \* cache.clan: the cached clan tag, per player
    password,       \* cache.password: the cached hash, per player, or none
    beatmaps,       \* cache.beatmaps: the md5s with a cached Beatmap
    leaderboards,   \* cache.leaderboards: the dict, in insertion order
    lb_built,       \* number of leaderboard objects built so far
    published,      \* the events published on the bus so far
    ev,             \* the pubsub handler in flight
    rep,            \* history: which event was last handled undisturbed
    \* ---- the bonus query ----
    bonus,          \* __calc_bonus_pp: the qualifying rows and the count used
    \* ---- the known non-existent beatmaps ----
    no_check_md5s,  \* cache.no_check_md5s: the hashes (each with NOT_SUBMITTED)
    lbreq,          \* the last leaderboard request: its hash, checks, answer
    rankq,          \* the ordered ranking board of one mode and the last rank read
    \* ---- the external ranking store ----
    ranking,        \* the members of the global and of the country boards
    \* ---- the recalculation threshold ----
    thr,            \* a player with about a hundred qualifying rows: the
                    \* rows by pp, the privileges, the cached Stats object
    \* ---- requests in flight ----
    pc,             \* per request slot: the suspension point it is at
    s,              \* per request slot: the Score object
    req,            \* per request slot: the rest of the handler's locals
    nsub            \* number of submissions handled so far

cacheVars == <<_cache, _cache_limit, length, now, last>>
storeVars == <<scores, first_places, users_privs, stats_sql, rap_logs>>
subVars   == <<scores, first_places, users_privs, stats_sql, rap_logs,
               priv_cache, announced, stats_objs, stats_cache, pc, s, req, nsub,
               ranking>>
lbVars    == <<lb>>
busVars   == <<users_sql, bmap_sql, name, clan, password, beatmaps,
               leaderboards, lb_built, published, ev>>
vars      == <<_cache, _cache_limit, length, now, last, scores, first_places,
               users_privs, stats_sql, rap_logs, priv_cache, announced,
               stats_objs, stats_cache, lb, users_sql, bmap_sql, name, clan,
               password, beatmaps, leaderboards, lb_built, published, ev,
               rep, bonus, thr, ranking, no_check_md5s, lbreq, rankq, pc, s, req,
               nsub>>

Min(a, b) == IF a < b THEN a ELSE b
Max(a, b) == IF a > b THEN a ELSE b

(***************************************************************************)
(* Bounds of the model.                                                    *)
(***************************************************************************)
MaxLimit == 3       \* cache limits 1..MaxLimit are tried
MaxTicks == 4       \* the clock advances at most MaxTicks times
MaxObj   == 2       \* cached objects are 1..MaxObj
MaxSubs  == 2       \* submissions handled in one run
MaxPP    == 2       \* the calculator returns 1..MaxPP, or raises

(***************************************************************************)
(* Cache: lru_cache.py                                                     *)
(***************************************************************************)
\* A CACHE_KEY: a scalar (str) or a tuple whose first component is a str.
ScalarKey(a)   == [tuple |-> FALSE, first |-> a, rest |-> 0]
TupleKey(a, b) == [tuple |-> TRUE, first |-> a, rest |-> b]
CacheKeys == {ScalarKey("p"), TupleKey("p", 1), TupleKey("q", 1)}
Patterns  == {"p", "q"}
Objects   == 1..MaxObj

\* the default cache_length, in minutes; Cache.__init__ multiplies by 60.
DefaultCacheLength == 5
\* seconds the clock advances in one Tick: half the entries' lifetime
TickStep == (DefaultCacheLength * 60) \div 2
MaxTime  == MaxTicks * TickStep

\* Python's seq[:n], n possibly negative.
PySlicePrefix(seq, n) ==
    IF n >= 0 THEN SubSeq(seq, 1, Min(n, Len(seq)))
              ELSE SubSeq(seq, 1, Max(0, Len(seq) + n))

RECURSIVE FilterSeq(_, _)
\* the entries of seq whose key is not in the set dropped, order kept
FilterSeq(seq, dropped) ==
    IF seq = <<>> THEN <<>>
    ELSE IF Head(seq).key \in dropped
         THEN FilterSeq(Tail(seq), dropped)
         ELSE <<Head(seq)>> \o FilterSeq(Tail(seq), dropped)

KeysOf(c) == {c[i].key : i \in 1..Len(c)}
_get_cached_keys(c) == [i \in 1..Len(c) |-> c[i].key]
SeqRange(q) == {q[i] : i \in 1..Len(q)}

\* a slip: a new key goes first
DictSet_NewFirst(c, k, e) ==
    IF k \in KeysOf(c)
    THEN [i \in 1..Len(c) |-> IF c[i].key = k THEN e ELSE c[i]]
    ELSE <<e>> \o c

\* dict assignment: an existing key keeps its position, a new one goes last
DictSet(c, k, e) ==
    IF k \in KeysOf(c)
    THEN [i \in 1..Len(c) |-> IF c[i].key = k THEN e ELSE c[i]]
    ELSE Append(c, e)

\* Cache.drop applied to every key of a set
DropAll(c, ks) == FilterSeq(c, ks)

_get_expired_cache(c, t) == {c[i].key : i \in {j \in 1..Len(c) : c[j].expire < t}}

_remove_expired_cache(c, t) == DropAll(c, _get_expired_cache(c, t))

ThrowAwayCount(c, lim) == Len(c) - lim

\* a slip: one key too few is thrown away
_remove_limit_cache_OffByOne(c, lim) ==
    IF ThrowAwayCount(c, lim) = 0
    THEN c
    ELSE DropAll(c, SeqRange(PySlicePrefix(_get_cached_keys(c),
                                           ThrowAwayCount(c, lim) - 1)))

_remove_limit_cache(c, lim) ==
    IF ThrowAwayCount(c, lim) = 0
    THEN c
    ELSE DropAll(c, SeqRange(PySlicePrefix(_get_cached_keys(c), ThrowAwayCount(c, lim))))

run_checks(c, t, lim) == _remove_limit_cache(_remove_expired_cache(c, t), lim)

\* what a call returns: an object, or None
Absent    == [found |-> FALSE, object |-> 0]
Found(v)  == [found |-> TRUE, object |-> v]

\* Cache.get: no look at the entry's expiry
CacheGet(c, k) ==
    IF \E i \in 1..Len(c) : c[i].key = k
    THEN Found((CHOOSE e \in SeqRange(c) : e.key = k).object)
    ELSE Absent

NoCall == [op |-> "init", key |-> ScalarKey("p"), arg |-> 0, ret |-> Absent,
           before |-> <<>>, mid |-> <<>>]

CacheInit ==
    /\ _cache = <<>>
    /\ _cache_limit \in 1..MaxLimit
    /\ length = DefaultCacheLength * 60
    /\ now = 0
    /\ last = NoCall

\* Cache.cache(key, cache_obj)
Cache_cache(k, v) ==
    LET e   == [key |-> k, expire |-> now + length, object |-> v]
        ins == DictSet(_cache, k, e)
    IN /\ _cache' = run_checks(ins, now, _cache_limit)
       /\ last' = [op |-> "cache", key |-> k, arg |-> v, ret |-> Absent,
                   before |-> _cache, mid |-> _remove_expired_cache(ins, now)]
       /\ UNCHANGED <<_cache_limit, length, now>>

\* Cache.drop(key)
Cache_drop(k) ==
    /\ _cache' = DropAll(_cache, {k})
    /\ last' = [op |-> "drop", key |-> k, arg |-> 0, ret |-> Absent,
                before |-> _cache, mid |-> <<>>]
    /\ UNCHANGED <<_cache_limit, length, now>>

\* a slip: a hit moves the entry to the end, as a true LRU would
Cache_get_Touch(k) ==
    /\ last' = [op |-> "get", key |-> k, arg |-> 0, ret |-> CacheGet(_cache, k),
                before |-> _cache, mid |-> <<>>]
    /\ _cache' = IF k \in KeysOf(_cache)
                 THEN Append(DropAll(_cache, {k}),
                             CHOOSE e \in SeqRange(_cache) : e.key = k)
                 ELSE _cache
    /\ UNCHANGED <<_cache_limit, length, now>>

\* Cache.get(key)
Cache_get(k) ==
    /\ last' = [op |-> "get", key |-> k, arg |-> 0, ret |-> CacheGet(_cache, k),
                before |-> _cache, mid |-> <<>>]
    /\ UNCHANGED <<_cache, _cache_limit, length, now>>

\* a slip: the key's type is not looked at
Cache_remove_all_elements_AnyKey(p) ==
    /\ _cache' = DropAll(_cache, {k \in KeysOf(_cache) : k.first = p})
    /\ last' = [op |-> "remove_all_elements", key |-> ScalarKey(p), arg |-> 0,
                ret |-> Absent, before |-> _cache, mid |-> <<>>]
    /\ UNCHANGED <<_cache_limit, length, now>>

\* Cache.remove_all_elements(pattern)
Cache_remove_all_elements(p) ==
    /\ _cache' = DropAll(_cache, {k \in KeysOf(_cache) : k.tuple /\ k.first = p})
    /\ last' = [op |-> "remove_all_elements", key |-> ScalarKey(p), arg |-> 0,
                ret |-> Absent, before |-> _cache, mid |-> <<>>]
    /\ UNCHANGED <<_cache_limit, length, now>>

\* time passes between calls
Tick ==
    /\ now + TickStep <= MaxTime
    /\ now' = now + TickStep
    /\ UNCHANGED <<_cache, _cache_limit, length, last>>


(***************************************************************************)
(* The data of a submission.                                               *)
(***************************************************************************)
BEST     == "BEST"
COMPLETE == "COMPLETE"
FAILED   == "FAILED"
QUIT     == "QUIT"
Unset    == "None"          \* Score.completed as from_score_sub leaves it

Users    == {1, 2}
Procs    == {1, 2}          \* request slots of the one worker
Modes    == {0}

\* Beatmaps by md5: one ranked (has a leaderboard), one without leaderboard.
Beatmaps == {"md5_ranked", "md5_nolb"}
has_leaderboard(md5) == md5 = "md5_ranked"
IsRanked(md5)        == md5 = "md5_ranked"

\* Mod combinations, and the scoring variant CustomModes.from_mods gives.
ModCombos == {"NM", "RX"}
from_mods(mods) == IF mods = "RX" THEN "RELAX" ELSE "VANILLA"
CustomModes == {"VANILLA", "RELAX"}
db_table(c_mode) == IF c_mode = "RELAX" THEN "scores_relax" ELSE "scores"
uses_ppboard(c_mode) == c_mode = "RELAX"

\* raw scores: compared for equality by the duplicate check, and the metric
\* of the score-ranked variant
RawScores == {1, 2}
PPValues  == 1..MaxPP       \* what the calculator returns

\* Privileges: only the USER_PUBLIC bit matters to the pipeline.
is_not_allowed(public) == ~public

\* count_300 + count_100 + count_50 of a play
HitCounts == {1}

NoScore == [id |-> 0, md5 |-> "md5_nolb", user_id |-> 0, score |-> 0,
            mods |-> "NM", mode |-> 0, c_mode |-> "VANILLA", passed |-> FALSE,
            quit |-> FALSE, completed |-> Unset, pp |-> 0, placement |-> 0,
            hits |-> 0]

\* Score.from_score_sub: id 0, completed None, pp 0.0, placement 0
from_score_sub(sub) ==
    [id |-> 0, md5 |-> sub.md5, user_id |-> sub.user, score |-> sub.score,
     mods |-> sub.mods, mode |-> sub.mode, c_mode |-> from_mods(sub.mods),
     passed |-> sub.passed, quit |-> sub.quit, completed |-> Unset, pp |-> 0,
     placement |-> 0, hits |-> sub.hits]

\* Stats.pp is the weighted sum of the top scores plus the bonus term, a
\* float: kept as the weighted sum in units of 1/PPScale and the count c the
\* bonus term 416.6667 * (1 - 0.9994^c) was computed from
NoPP == [weighted |-> 0, bonus_count |-> 0]

\* (accuracy and max_combo, which recalc_pp_acc_full and calc_max_combo set
\* the way pp is set, are not kept)
NoStats == [playcount |-> 0, total_score |-> 0, ranked_score |-> 0,
            total_hits |-> 0, pp |-> NoPP]

\* the reasons edit_user is called with
TAMPERING   == "Tampering with osu!auth"
SUBMITTER   == "Score submitter."
ILLEGAL_MOD == "Illegal mod combo (score submitter)."
NO_REPLAY   == "Score submit without replay (always should contain it)."
PP_CAP      == "Surpassing PP cap as unverified!"
OLD_CLIENT  == "Bypassing client version protections."

\* the anticheat checks of lines 74-89 a request may trip
Trips == {"token", "agent", "conflict"}
TripReason(trip) ==
    CASE trip = "token" -> TAMPERING
      [] trip = "agent" -> SUBMITTER
      [] OTHER          -> ILLEGAL_MOD

\* the handler's locals besides the Score. stats is the id of the Stats
\* object in hand, fetched the row from_sql has read; user and todo are
\* recalc_user_pubsub's user_id and the variants its loop has yet to do.
\* History kept for the
\* properties: dupe, demoted, first_place, saved, all_ok (every request of
\* the slot so far was answered with the panels).
NoReq == [via |-> "none", gate |-> "ok", cheat |-> FALSE, trip |-> "token",
          calc |-> 0, calc_raises |-> FALSE, replay |-> FALSE,
          over_cap |-> FALSE, restricted |-> FALSE, resp |-> "none",
          prev |-> 0, has_prev |-> FALSE, stats |-> 0, fetched |-> NoStats,
          entry_placement |-> 0, first_place |-> FALSE, demoted |-> 0,
          dupe |-> FALSE, saved |-> FALSE, all_ok |-> TRUE,
          user |-> 0, todo |-> <<>>, old_pp |-> NoPP]

\* What a request carries besides the score: does it pass the gates
\* (well-formed payload, online, known beatmap, rankable mods, password),
\* does it trip an anticheat check, does it carry a replay, does
\* surpassed_cap_restrict find it over the cap, and what the performance
\* calculator will do with it.
Gates == {"ok", "malformed", "offline", "nobmap", "unrankable", "badpass"}

Submissions ==
    [user : Users, md5 : Beatmaps, mods : ModCombos, mode : Modes,
     score : RawScores, passed : BOOLEAN, quit : BOOLEAN, hits : HitCounts,
     gate : Gates, cheat : BOOLEAN, trip : Trips, replay : BOOLEAN,
     over_cap : BOOLEAN, calc : PPValues, calc_raises : BOOLEAN]

\* requests that trip nothing and carry what a play of their kind carries
\* (a replay with a pass), by player, beatmap, variant, raw score, flags and
\* calculator outcome
PlainPlays(users, md5s, combos, raw, passed, quit, calcs, raises) ==
    {[sub EXCEPT !.replay = sub.passed /\ ~sub.quit] : sub \in
        [user : users, md5 : md5s, mods : combos, mode : Modes, score : raw,
         passed : passed, quit : quit, hits : HitCounts, gate : {"ok"},
         cheat : {FALSE}, trip : {"token"}, replay : {FALSE},
         over_cap : {FALSE}, calc : calcs, calc_raises : raises]}
\* ... passes of either player on the ranked beatmap whose raw score and
\* performance value do not matter
SimplePasses ==
    PlainPlays(Users, {"md5_ranked"}, {"NM"}, {1}, {TRUE}, {FALSE}, {1}, {FALSE})

\* The requests the runs draw from.
\* passes on the ranked beatmap: every player, variant, raw score and
\* performance value
RankedPasses ==
    PlainPlays(Users, {"md5_ranked"}, ModCombos, RawScores, {TRUE}, {FALSE},
               PPValues, {FALSE})
\* passes on which the calculator raises (the value it would return is moot)
RaisingPasses ==
    PlainPlays(Users, {"md5_ranked"}, ModCombos, RawScores, {TRUE}, {FALSE},
               {1}, {TRUE})
\* fails and quits (a quit may carry the passed flag) on the ranked beatmap
NonPasses ==
    {sub \in PlainPlays(Users, {"md5_ranked"}, ModCombos, {1}, BOOLEAN,
                        BOOLEAN, {1}, {FALSE}) : sub.quit \/ ~sub.passed}
\* plays on the beatmap without leaderboard
NoLbPlays ==
    PlainPlays({1}, {"md5_nolb"}, {"NM"}, {1}, BOOLEAN, BOOLEAN, {1}, {FALSE})
\* requests stopped at a gate (what else they carry is moot)
Gated ==
    {[sub EXCEPT !.gate = g] : sub \in SimplePasses, g \in Gates \ {"ok"}}
\* passes that trip one of the anticheat checks
Tripping ==
    {[sub EXCEPT !.cheat = TRUE, !.trip = t] : sub \in SimplePasses, t \in Trips}
\* passes sent without a replay
NoReplayPasses ==
    {[sub EXCEPT !.replay = FALSE] : sub \in
        PlainPlays(Users, {"md5_ranked"}, {"NM"}, {1}, {TRUE}, {FALSE},
                   PPValues, {FALSE})}
\* fails sent with a replay
ReplayFails ==
    {[sub EXCEPT !.replay = TRUE] : sub \in
        PlainPlays(Users, {"md5_ranked"}, {"NM"}, {1}, {FALSE}, {FALSE},
                   {1}, {FALSE})}
\* passes that surpassed_cap_restrict finds over the cap
CapBreakers ==
    {[sub EXCEPT !.over_cap = TRUE] : sub \in
        PlainPlays(Users, {"md5_ranked"}, {"NM"}, {2}, {TRUE}, {FALSE},
                   PPValues, {FALSE})}

SeqSubmissions ==
    RankedPasses \cup RaisingPasses \cup NonPasses \cup NoLbPlays \cup Gated
    \cup Tripping \cup NoReplayPasses \cup ReplayFails \cup CapBreakers

\* requests of one player on the ranked beatmap, nothing rejected early
ConcSubmissions == {sub \in RankedPasses \cup NonPasses : sub.user = 1}

\* the Score objects Score.submit is called on directly
DirectSubmissions ==
    RankedPasses \cup RaisingPasses \cup NonPasses \cup NoLbPlays

(***************************************************************************)
(* Queries on the score tables.                                            *)
(***************************************************************************)
Row(sc) ==
    [userid |-> sc.user_id, beatmap_md5 |-> sc.md5, play_mode |-> sc.mode,
     table |-> db_table(sc.c_mode), mods |-> sc.mods, score |-> sc.score,
     pp |-> sc.pp, completed |-> sc.completed]

\* a slip: the query leaves out "userid = :id"
BestQuery_AnyPlayer(tbl, sc) ==
    {i \in 1..Len(tbl) :
        /\ tbl[i].table = db_table(sc.c_mode)
        /\ tbl[i].completed = BEST
        /\ tbl[i].beatmap_md5 = sc.md5
        /\ tbl[i].play_mode = sc.mode}

\* calc_completed: "userid = :id AND completed = BEST AND beatmap_md5 = :md5
\* AND play_mode = mode", in the table of the score's variant
BestQuery(tbl, sc) ==
    {i \in 1..Len(tbl) :
        /\ tbl[i].table = db_table(sc.c_mode)
        /\ tbl[i].userid = sc.user_id
        /\ tbl[i].completed = BEST
        /\ tbl[i].beatmap_md5 = sc.md5
        /\ tbl[i].play_mode = sc.mode}

\* the rows the demoting UPDATE may hit: "... AND pp < val"
\* a slip: the UPDATE without "completed = 3"
DemoteCandidates_AnyClass(tbl, sc) ==
    {i \in 1..Len(tbl) :
        /\ tbl[i].table = db_table(sc.c_mode)
        /\ tbl[i].userid = sc.user_id
        /\ tbl[i].beatmap_md5 = sc.md5
        /\ tbl[i].play_mode = sc.mode
        /\ tbl[i].pp < sc.pp}

DemoteCandidates(tbl, sc) == {i \in BestQuery(tbl, sc) : tbl[i].pp < sc.pp}

\* a slip: the SELECT keeps the UPDATE's "AND pp < val"
RemainsBest_WithPpFilter(tbl, sc) == DemoteCandidates(tbl, sc) # {}

\* "SELECT 1 FROM table WHERE <query> LIMIT 1"
RemainsBest(tbl, sc) == BestQuery(tbl, sc) # {}

\* calc_placement: the metric of the variant
PlacementMetricOfRow(r, c_mode) == IF uses_ppboard(c_mode) THEN r.pp ELSE r.score
PlacementVal(sc) == IF uses_ppboard(sc.c_mode) THEN sc.pp ELSE sc.score

\* "SELECT COUNT(*) ... WHERE u.privileges & USER_PUBLIC AND s.play_mode = mode
\* AND s.completed = BEST AND scoring > :score_val AND s.beatmap_md5 = :md5"
PlacementCount(tbl, privs, sc) ==
    Cardinality({i \in 1..Len(tbl) :
        /\ tbl[i].table = db_table(sc.c_mode)
        /\ privs[tbl[i].userid]
        /\ tbl[i].play_mode = sc.mode
        /\ tbl[i].completed = BEST
        /\ PlacementMetricOfRow(tbl[i], sc.c_mode) > PlacementVal(sc)
        /\ tbl[i].beatmap_md5 = sc.md5})

\* a slip: the check compares the pp column with the score's pp
DupeQuery_PpColumn(tbl, sc) ==
    \E i \in 1..Len(tbl) :
        /\ tbl[i].table = db_table(sc.c_mode)
        /\ tbl[i].userid = sc.user_id
        /\ tbl[i].beatmap_md5 = sc.md5
        /\ tbl[i].pp = sc.pp
        /\ tbl[i].play_mode = sc.mode
        /\ tbl[i].mods = sc.mods

\* score_submit_handler: the duplicate check
DupeQuery(tbl, sc) ==
    \E i \in 1..Len(tbl) :
        /\ tbl[i].table = db_table(sc.c_mode)
        /\ tbl[i].userid = sc.user_id
        /\ tbl[i].beatmap_md5 = sc.md5
        /\ tbl[i].score = sc.score
        /\ tbl[i].play_mode = sc.mode
        /\ tbl[i].mods = sc.mods

\* score_submit_handler: "SELECT id ... completed = 3 ... LIMIT 1"
PrevBestQuery(tbl, sc) == BestQuery(tbl, sc)

\* on_first_place: the rows its DELETE may hit
FirstPlaceKeyMatches(fp, sc) ==
    fp.beatmap_md5 = sc.md5 /\ fp.mode = sc.mode /\ fp.relax = sc.c_mode

\* Score.submit: is on_first_place called
FirstPlaceCondition(sc, restricted) == sc.placement = 1 /\ ~restricted

\* Score.submit: is insert_into_lb_cache called (a method Score does not
\* have: the call raises AttributeError)
LbCacheCondition(sc, restricted) ==
    sc.completed = BEST /\ has_leaderboard(sc.md5) /\ ~restricted


\* is a row with the score's (player, beatmap, raw score, mode, mods) persisted
SameTuplePersisted(tbl, sc) ==
    \E i \in 1..Len(tbl) :
        /\ tbl[i].userid = sc.user_id /\ tbl[i].beatmap_md5 = sc.md5
        /\ tbl[i].score = sc.score /\ tbl[i].play_mode = sc.mode
        /\ tbl[i].mods = sc.mods

(***************************************************************************)
(* score_submit_handler and Score.submit, one action per suspension point. *)
(***************************************************************************)
\* the cached leaderboard before anything is inserted
NoLb == [c_mode |-> "VANILLA", scores |-> <<>>, inserted |-> NoScore,
         replaced |-> FALSE]

privVars == <<users_privs, priv_cache, rap_logs, ranking>>
statVars == <<stats_sql, stats_objs, stats_cache>>

\* an empty store with the given privileges, which the privilege cache has
\* loaded, and the given cached leaderboard
SubInitOn(tbl, privs, board) ==
    /\ scores = tbl
    /\ first_places = {}
    /\ users_privs = privs
    /\ stats_sql = [u \in Users |-> [c \in CustomModes |-> NoStats]]
    /\ rap_logs = <<>>
    /\ priv_cache = privs
    /\ announced = 0
    /\ stats_objs = <<>>
    /\ stats_cache = [u \in Users |-> [c \in CustomModes |-> 0]]
    /\ lb = board
    /\ pc = [p \in Procs |-> "idle"]
    /\ s = [p \in Procs |-> NoScore]
    /\ req = [p \in Procs |-> NoReq]
    /\ nsub = 0

SubInitWith(privs, board) == SubInitOn(<<>>, privs, board)

\* every player public, nothing on the cached leaderboard
SubInit == SubInitWith([u \in Users |-> TRUE], NoLb)

Idle(p) == pc[p] \in {"idle", "done"}

\* the handler returns: the response is kept until the slot is reused
Return(p, r, text) ==
    /\ pc' = [pc EXCEPT ![p] = "done"]
    /\ req' = [req EXCEPT ![p] = [r EXCEPT !.resp = text,
                                           !.all_ok = r.all_ok
                                              /\ (r.via = "handler" => text = "ok")]]

\* Lines 46-72: the score is built, the gates are passed or not. A payload
\* from_score_sub gives up on leaves s = None, and line 55 reads s.user_id.
\* The privileges are read from the cache before any anticheat check.
BeginUpTo(p, sub, max) ==
    /\ Idle(p)
    /\ nsub < max
    /\ nsub' = nsub + 1
    /\ s' = [s EXCEPT ![p] = IF sub.gate = "malformed" THEN NoScore
                             ELSE from_score_sub(sub)]
    /\ LET r == [NoReq EXCEPT !.via = "handler", !.gate = sub.gate,
                              !.cheat = sub.cheat, !.trip = sub.trip,
                              !.calc = sub.calc,
                              !.calc_raises = sub.calc_raises,
                              !.replay = sub.replay, !.over_cap = sub.over_cap,
                              !.restricted = is_not_allowed(priv_cache[sub.user]),
                              !.dupe = sub.gate # "malformed"
                                  /\ SameTuplePersisted(scores, from_score_sub(sub)),
                              !.all_ok = req[p].all_ok]
       IN CASE sub.gate = "malformed"  -> Return(p, r, "AttributeError")
            [] sub.gate = "offline"    -> Return(p, r, "")
            [] sub.gate = "nobmap"     -> Return(p, r, "error: no")
            [] sub.gate = "unrankable" -> Return(p, r, "error: no")
            [] sub.gate = "badpass"    -> Return(p, r, "error: pass")
            [] OTHER -> /\ pc' = [pc EXCEPT ![p] = "anticheat"]
                        /\ req' = [req EXCEPT ![p] = r]
    /\ UNCHANGED <<scores, first_places, privVars, statVars, announced>>

Begin(p, sub) == BeginUpTo(p, sub, MaxSubs)

\* edit_user(Actions.RESTRICT, user_id, reason): reload the privileges, clear
\* USER_PUBLIC in the store unless the player is restricted already, log the
\* call in rap_logs, reload again
\* nobody on the ranking boards
NoRanking == [global |-> {}, country |-> {}]

RankingInit == ranking = NoRanking

\* remove_user_from_leaderboards: zrem on the global and the country boards
\* of every mode and variant
remove_user_from_leaderboards(rk, u) ==
    [global  |-> {e \in rk.global : e[1] # u},
     country |-> {e \in rk.country : e[1] # u}]

\* a slip: the ranking store is left alone
edit_user_restrict_on_NoCleanup(rk, u, reason) ==
    /\ users_privs' = [users_privs EXCEPT ![u] = FALSE]
    /\ priv_cache' = [priv_cache EXCEPT ![u] = FALSE]
    /\ rap_logs' = Append(rap_logs, [user |-> u, reason |-> reason])
    /\ ranking' = rk

\* edit_user with the ranking store as rk: a player the store has public is
\* restricted and removed from the boards
edit_user_restrict_on(rk, u, reason) ==
    /\ users_privs' = [users_privs EXCEPT ![u] = FALSE]
    /\ priv_cache' = [priv_cache EXCEPT ![u] = FALSE]
    /\ rap_logs' = Append(rap_logs, [user |-> u, reason |-> reason])
    /\ ranking' = IF users_privs[u] THEN remove_user_from_leaderboards(rk, u)
                  ELSE rk

edit_user_restrict(u, reason) == edit_user_restrict_on(ranking, u, reason)

\* Lines 74-89: the anticheat checks (token, user agent, mod conflict)
Anticheat(p) ==
    /\ pc[p] = "anticheat"
    /\ IF req[p].cheat
       THEN edit_user_restrict(s[p].user_id, TripReason(req[p].trip))
       ELSE UNCHANGED privVars
    /\ pc' = [pc EXCEPT ![p] = "dupe"]
    /\ UNCHANGED <<scores, first_places, statVars, announced, s, req, nsub>>

\* Lines 91-110: the duplicate check
DupeCheck(p) ==
    /\ pc[p] = "dupe"
    /\ IF DupeQuery(scores, s[p])
       THEN Return(p, req[p], "error: no")
       ELSE /\ pc' = [pc EXCEPT ![p] = "stats"]
            /\ UNCHANGED req
    /\ UNCHANGED <<scores, first_places, privVars, statVars, announced, s, nsub>>

\* where the handler goes once it holds the Stats object (line 119)
AfterStats(sc) == IF sc.passed THEN "prev" ELSE "submit"

\* Line 113, Stats.from_id: from_cache first. A hit hands out the cached
\* object itself. (stats_cache keeps an entry 240 minutes and evicts from 150
\* entries on: neither happens in these runs.)
LoadStats(p) ==
    /\ pc[p] = "stats"
    /\ LET id == stats_cache[s[p].user_id][s[p].c_mode]
       IN IF id # 0
          THEN /\ req' = [req EXCEPT ![p].stats = id,
                                      ![p].old_pp = stats_objs[id].pp]
               /\ pc' = [pc EXCEPT ![p] = AfterStats(s[p])]
          ELSE /\ pc' = [pc EXCEPT ![p] = "from_sql"]
               /\ UNCHANGED req
    /\ UNCHANGED <<scores, first_places, privVars, statVars, announced, s, nsub>>

\* Stats.from_sql: the SELECT on the stats row
StatsFromSql(p) ==
    /\ pc[p] = "from_sql"
    /\ req' = [req EXCEPT ![p].fetched = stats_sql[s[p].user_id][s[p].c_mode]]
    /\ pc' = [pc EXCEPT ![p] = "stats_rank"]
    /\ UNCHANGED <<scores, first_places, privVars, statVars, announced, s, nsub>>

\* Stats.from_sql after get_rank_redis: a new Stats object is built from the
\* row read, and from_id caches it
StatsCache(p) ==
    /\ pc[p] = "stats_rank"
    /\ stats_objs' = Append(stats_objs, req[p].fetched)
    /\ stats_cache' = [stats_cache EXCEPT ![s[p].user_id][s[p].c_mode] =
                          Len(stats_objs) + 1]
    /\ req' = [req EXCEPT ![p].stats = Len(stats_objs) + 1,
                           ![p].old_pp = req[p].fetched.pp]
    /\ pc' = [pc EXCEPT ![p] = AfterStats(s[p])]
    /\ UNCHANGED <<scores, first_places, privVars, stats_sql, announced, s, nsub>>

\* Lines 116-127: the previous best, when the play passed
FetchPrev(p) ==
    /\ pc[p] = "prev"
    /\ IF PrevBestQuery(scores, s[p]) = {}
       THEN UNCHANGED req
       ELSE \E i \in PrevBestQuery(scores, s[p]) :
               req' = [req EXCEPT ![p].has_prev = TRUE, ![p].prev = scores[i].score]
    /\ pc' = [pc EXCEPT ![p] = "submit"]
    /\ UNCHANGED <<scores, first_places, privVars, statVars, announced, s, nsub>>

\* Score.calc_pp: 0 without leaderboard, else the calculator's value, or
\* the value the score had when the calculator raises
calc_pp(sc, r) ==
    IF ~has_leaderboard(sc.md5) THEN 0
    ELSE IF r.calc_raises THEN sc.pp ELSE r.calc

\* a slip: the quit test comes before the placement test
SimpleCompleted_QuitFirst(sc) ==
    IF sc.quit THEN QUIT
    ELSE IF sc.placement = 1 THEN BEST
    ELSE IF ~sc.passed THEN FAILED
    ELSE IF ~has_leaderboard(sc.md5) THEN COMPLETE
    ELSE Unset

\* Score.calc_completed, lines 181-194: the cases decided without the store
SimpleCompleted(sc) ==
    IF sc.placement = 1 THEN BEST
    ELSE IF sc.quit THEN QUIT
    ELSE IF ~sc.passed THEN FAILED
    ELSE IF ~has_leaderboard(sc.md5) THEN COMPLETE
    ELSE Unset

\* Score.submit lines 416-419 up to calc_completed's UPDATE (line 212)
CalcCompletedUpdate(p) ==
    /\ pc[p] = "submit"
    /\ LET sc == [s[p] EXCEPT !.pp = calc_pp(s[p], req[p])]
       IN IF SimpleCompleted(sc) # Unset
          THEN /\ s' = [s EXCEPT ![p] = [sc EXCEPT !.completed = SimpleCompleted(sc)]]
               /\ pc' = [pc EXCEPT ![p] = "placement"]
               /\ UNCHANGED <<scores, req>>
          ELSE /\ s' = [s EXCEPT ![p] = sc]
               /\ pc' = [pc EXCEPT ![p] = "remains"]
               /\ IF DemoteCandidates(scores, sc) = {}
                  THEN UNCHANGED <<scores, req>>
                  ELSE \E i \in DemoteCandidates(scores, sc) :
                          /\ scores' = [scores EXCEPT ![i].completed = COMPLETE]
                          /\ req' = [req EXCEPT ![p].demoted = i]
    /\ UNCHANGED <<first_places, privVars, statVars, announced, nsub>>

\* calc_completed lines 219-230: does a BEST row remain
CalcCompletedSelect(p) ==
    /\ pc[p] = "remains"
    /\ s' = [s EXCEPT ![p].completed =
                IF RemainsBest(scores, s[p]) THEN COMPLETE ELSE BEST]
    /\ pc' = [pc EXCEPT ![p] = "placement"]
    /\ UNCHANGED <<scores, first_places, privVars, statVars, announced, req, nsub>>

\* Score.calc_placement
calc_placement(tbl, privs, sc) ==
    IF (~sc.passed) \/ (~has_leaderboard(sc.md5)) THEN 0
    ELSE PlacementCount(tbl, privs, sc) + 1

CalcPlacement(p) ==
    /\ pc[p] = "placement"
    /\ s' = [s EXCEPT ![p].placement = calc_placement(scores, users_privs, s[p])]
    /\ pc' = [pc EXCEPT ![p] = "insert"]
    /\ UNCHANGED <<scores, first_places, privVars, statVars, announced, req, nsub>>

\* where Score.submit goes after the row is in (lines 425-436) and, once it
\* has returned, the handler (line 132)
AfterFirstPlace(p, sc) ==
    IF LbCacheCondition(sc, req[p].restricted)
    THEN "AttributeError"
    ELSE IF req[p].via = "handler" THEN "update_stats" ELSE "returned"

\* a slip: the row goes in with the performance value the score came with
Insert_BeforeCalcPp(p) ==
    /\ pc[p] = "insert"
    /\ LET sc == [s[p] EXCEPT !.id = Len(scores) + 1]
       IN /\ scores' = Append(scores, [Row(sc) EXCEPT !.pp = 0])
          /\ s' = [s EXCEPT ![p] = sc]
          /\ pc' = [pc EXCEPT ![p] =
                       IF FirstPlaceCondition(sc, req[p].restricted)
                       THEN "fp_delete" ELSE AfterFirstPlace(p, sc)]
    /\ UNCHANGED <<first_places, privVars, statVars, announced, req, nsub>>
\* Score.__insert
Insert(p) ==
    /\ pc[p] = "insert"
    /\ LET sc == [s[p] EXCEPT !.id = Len(scores) + 1]
       IN /\ scores' = Append(scores, Row(sc))
          /\ s' = [s EXCEPT ![p] = sc]
          /\ pc' = [pc EXCEPT ![p] =
                       IF FirstPlaceCondition(sc, req[p].restricted)
                       THEN "fp_delete" ELSE AfterFirstPlace(p, sc)]
    /\ UNCHANGED <<first_places, privVars, statVars, announced, req, nsub>>

\* on_first_place lines 342-346: DELETE ... LIMIT 1
FirstPlaceDelete(p) ==
    /\ pc[p] = "fp_delete"
    /\ LET hit == {fp \in first_places : FirstPlaceKeyMatches(fp, s[p])}
       IN IF hit = {} THEN UNCHANGED first_places
          ELSE \E fp \in hit : first_places' = first_places \ {fp}
    /\ pc' = [pc EXCEPT ![p] = "fp_insert"]
    /\ UNCHANGED <<scores, privVars, statVars, announced, s, req, nsub>>

\* on_first_place lines 349-386: INSERT, then the announcement
FirstPlaceInsert(p) ==
    /\ pc[p] = "fp_insert"
    /\ first_places' = first_places \cup
          {[score_id |-> s[p].id, user_id |-> s[p].user_id,
            beatmap_md5 |-> s[p].md5, mode |-> s[p].mode, relax |-> s[p].c_mode,
            completed |-> s[p].completed]}
    /\ announced' = announced + 1
    /\ req' = [req EXCEPT ![p].first_place = TRUE]
    /\ pc' = [pc EXCEPT ![p] = AfterFirstPlace(p, s[p])]
    /\ UNCHANGED <<scores, privVars, statVars, s, nsub>>

\* Score.submit line 436: self.insert_into_lb_cache() does not exist
RaiseAttributeError(p) ==
    /\ pc[p] = "AttributeError"
    /\ Return(p, req[p], "AttributeError")
    /\ UNCHANGED <<scores, first_places, privVars, statVars, announced, s, nsub>>

\* ranked_score's increment, lines 150-156
add_score(sc, r) ==
    IF r.has_prev /\ sc.completed = BEST THEN sc.score - r.prev ELSE sc.score

\* Lines 146-158: the Stats update in the object
update_stats(st, sc, r) ==
    [st EXCEPT !.playcount = @ + 1,
               !.total_score = @ + sc.score,
               !.total_hits = @ + sc.hits,
               !.ranked_score =
                   IF sc.passed /\ has_leaderboard(sc.md5) /\ IsRanked(sc.md5)
                   THEN @ + add_score(sc, r) ELSE @]

(***************************************************************************)
(* The Stats recomputation: stats.py, recalc_pp_acc_full, __calc_bonus_pp. *)
(***************************************************************************)
\* SQL "LIMIT n" on a result set
Limit(rows, n) == SubSeq(rows, 1, Min(n, Len(rows)))

\* the rows both queries select: BEST rows of the player in the mode, in
\* the variant's table, on ranked (or approved) beatmaps
QualifyingRows(tbl, u, mode, c_mode) ==
    {i \in 1..Len(tbl) :
        /\ tbl[i].table = db_table(c_mode)
        /\ tbl[i].completed = BEST
        /\ tbl[i].play_mode = mode
        /\ IsRanked(tbl[i].beatmap_md5)
        /\ tbl[i].userid = u}

\* "LIMIT 25397" of the bonus query
BonusCap == 25397
\* "SELECT COUNT(*) ... LIMIT lim" on n qualifying rows: the result set is
\* the one row holding the count, and LIMIT bounds the rows of the result
SelectCountLimit(n, lim) ==
    LET result == Limit(<<n>>, lim)
    IN IF result = <<>> THEN 0 ELSE result[1]

\* __calc_bonus_pp: the count c the bonus term is computed from
calc_bonus_count(tbl, u, mode, c_mode) ==
    SelectCountLimit(Cardinality(QualifyingRows(tbl, u, mode, c_mode)), BonusCap)

\* "ORDER BY s.pp DESC LIMIT 100"
TopLimit == 100
RECURSIVE OrderByPpDesc(_, _)
OrderByPpDesc(tbl, ids) ==
    IF ids = {} THEN <<>>
    ELSE LET top == CHOOSE i \in ids : \A j \in ids : tbl[i].pp >= tbl[j].pp
         IN <<tbl[top].pp>> \o OrderByPpDesc(tbl, ids \ {top})

\* s_pp * 0.95^idx in units of 1/PPScale (exact for the idx <= PPScaleExp
\* these runs reach)
PPScaleExp == 3
Pow(b, e) == IF e = 0 THEN 1 ELSE IF e = 1 THEN b ELSE IF e = 2 THEN b * b
             ELSE b * b * b
Weighted(pp, idx) == pp * Pow(95, idx) * Pow(100, PPScaleExp - idx)

RECURSIVE SumWeighted(_, _)
\* t_pp of the loop of lines 172-175, from index idx on
SumWeighted(pps, idx) ==
    IF idx > Len(pps) THEN 0
    ELSE Weighted(pps[idx], idx - 1) + SumWeighted(pps, idx + 1)

\* Stats.recalc_pp_acc_full without a threshold set (_required_recalc_pp is
\* set once a player has 100 qualifying scores): self.pp afterwards
recalc_pp_acc_full(tbl, u, mode, c_mode) ==
    LET scores_db == Limit(OrderByPpDesc(tbl, QualifyingRows(tbl, u, mode, c_mode)),
                           TopLimit)
    IN [weighted |-> SumWeighted(scores_db, 1),
        bonus_count |-> calc_bonus_count(tbl, u, mode, c_mode)]

\* Lines 159-161: is recalc_pp_acc_full awaited before the save
NeedsRecalc(sc) ==
    sc.passed /\ has_leaderboard(sc.md5) /\ sc.completed = BEST /\ sc.pp # 0

\* Stats.save: the object's values go to the stats row
save(p, objs) ==
    /\ stats_sql' = [stats_sql EXCEPT ![s[p].user_id][s[p].c_mode] = objs[req[p].stats]]
    /\ req' = [req EXCEPT ![p].saved = TRUE]
    /\ pc' = [pc EXCEPT ![p] = "replay"]

\* Lines 141-163: the Stats object is updated in place, and saved at once
\* unless recalc_pp_acc_full suspends the handler first
UpdateStats(p) ==
    /\ pc[p] = "update_stats"
    /\ stats_objs' = [stats_objs EXCEPT ![req[p].stats] = update_stats(@, s[p], req[p])]
    /\ IF NeedsRecalc(s[p])
       THEN /\ pc' = [pc EXCEPT ![p] = "save"]
            /\ UNCHANGED <<stats_sql, req>>
       ELSE save(p, stats_objs')
    /\ UNCHANGED <<scores, first_places, privVars, stats_cache, announced, s, nsub>>

\* Lines 161-163: recalc_pp_acc_full sets the object's pp, then the save
SaveStats(p) ==
    /\ pc[p] = "save"
    /\ stats_objs' = [stats_objs EXCEPT ![req[p].stats].pp =
                          recalc_pp_acc_full(scores, s[p].user_id, s[p].mode,
                                             s[p].c_mode)]
    /\ save(p, stats_objs')
    /\ UNCHANGED <<scores, first_places, privVars, stats_cache, announced, s, nsub>>

\* Lines 165-172: the restriction tied to the replay
ReplayRestricts(sc, r) == r.replay /\ ~sc.passed

ReplayCheck(p) ==
    /\ pc[p] = "replay"
    /\ IF ReplayRestricts(s[p], req[p])
       THEN edit_user_restrict(s[p].user_id, NO_REPLAY)
       ELSE UNCHANGED privVars
    /\ pc' = [pc EXCEPT ![p] = "finish"]
    /\ UNCHANGED <<scores, first_places, statVars, announced, s, req, nsub>>

\* anticheat.surpassed_cap_restrict(s): external to the pipeline, a verdict
surpassed_cap_restrict(r) == r.over_cap

\* Line 215: is the cap restriction issued
CapRestricts(sc, r) == sc.completed = BEST /\ surpassed_cap_restrict(r)

\* round(stats.pp) = 0: no top score counts and the bonus term, of fewer
\* than three scores, is below a half
RoundsToZero(pp) == pp.weighted = 0 /\ pp.bonus_count < 3

\* Lines 183-187: are the ranking boards written, for a BEST score of a
\* player whose privileges (read at line 57) have USER_PUBLIC
UpdatesLbPos(sc, r, st) ==
    sc.completed = BEST /\ ~r.restricted /\ r.old_pp # st.pp

\* update_lb_pos and update_country_lb_pos: zadd, unless the rounded pp is 0
update_lb_pos(rk, u, pp, c_mode) ==
    IF RoundsToZero(pp) THEN rk
    ELSE [global  |-> rk.global \cup {<<u, c_mode>>},
          country |-> rk.country \cup {<<u, c_mode>>}]

\* Lines 174-314: the ranking boards, the cap check and the response panels
Finish(p) ==
    /\ pc[p] = "finish"
    /\ LET rk == IF UpdatesLbPos(s[p], req[p], stats_objs[req[p].stats])
                 THEN update_lb_pos(ranking, s[p].user_id,
                                    stats_objs[req[p].stats].pp, s[p].c_mode)
                 ELSE ranking
       IN IF CapRestricts(s[p], req[p])
          THEN edit_user_restrict_on(rk, s[p].user_id, PP_CAP)
          ELSE ranking' = rk /\ UNCHANGED <<users_privs, priv_cache, rap_logs>>
    /\ Return(p, req[p], "ok")
    /\ UNCHANGED <<scores, first_places, statVars, announced, s, nsub>>

\* a direct call of Score.submit(restricted = r) on a Score object whose
\* placement the caller may have set already
DirectSubmit(p, sub, placement, restricted) ==
    /\ Idle(p)
    /\ nsub < MaxSubs
    /\ nsub' = nsub + 1
    /\ s' = [s EXCEPT ![p] = [from_score_sub(sub) EXCEPT !.placement = placement]]
    /\ req' = [req EXCEPT ![p] =
                 [NoReq EXCEPT !.via = "direct", !.calc = sub.calc,
                               !.calc_raises = sub.calc_raises,
                               !.restricted = restricted,
                               !.entry_placement = placement]]
    /\ pc' = [pc EXCEPT ![p] = "submit"]
    /\ UNCHANGED <<scores, first_places, privVars, statVars, announced>>

\* Score.submit returns to a direct caller
SubmitReturns(p) ==
    /\ pc[p] = "returned"
    /\ Return(p, req[p], "returned")
    /\ UNCHANGED <<scores, first_places, privVars, statVars, announced, s, nsub>>

(***************************************************************************)
(* recalc_pp_pubsub: the performance value of a persisted score is         *)
(* recomputed.                                                             *)
(***************************************************************************)
\* Completed.completed: does the value stand for a passed play
Completed_completed(c) == c \in {COMPLETE, BEST}

\* Score.from_tuple on the row with the given id
from_tuple(row, id) ==
    [id |-> id, md5 |-> row.beatmap_md5, user_id |-> row.userid,
     score |-> row.score, mods |-> row.mods, mode |-> row.play_mode,
     c_mode |-> from_mods(row.mods), passed |-> Completed_completed(row.completed),
     quit |-> row.completed = QUIT, completed |-> row.completed, pp |-> row.pp,
     placement |-> 0, hits |-> 0]

\* Lines 56-64: Score.from_db(score_id, c_mode, False)
RecalcBegin(p, id, calc, raises) ==
    /\ Idle(p)
    /\ nsub < MaxSubs
    /\ id \in 1..Len(scores)
    /\ nsub' = nsub + 1
    /\ s' = [s EXCEPT ![p] = from_tuple(scores[id], id)]
    /\ req' = [req EXCEPT ![p] =
                 [NoReq EXCEPT !.via = "recalc_pp", !.calc = calc,
                               !.calc_raises = raises, !.prev = scores[id].pp,
                               !.all_ok = req[p].all_ok]]
    /\ pc' = [pc EXCEPT ![p] = "recalc"]
    /\ UNCHANGED <<scores, first_places, privVars, statVars, announced>>

\* Lines 66-68: calc_pp, then save_pp's UPDATE
RecalcSave(p) ==
    /\ pc[p] = "recalc"
    /\ LET sc == [s[p] EXCEPT !.pp = calc_pp(s[p], req[p])]
       IN /\ s' = [s EXCEPT ![p] = sc]
          /\ scores' = [scores EXCEPT ![sc.id].pp = sc.pp]
    /\ Return(p, req[p], "recalculated")
    /\ UNCHANGED <<first_places, privVars, statVars, announced, nsub>>

(***************************************************************************)
(* recalc_user_pubsub: the Stats of one player are recomputed, variant by  *)
(* variant.                                                                *)
(***************************************************************************)
\* CustomModes.all_modes(), in order (each with the one mode of these runs)
all_modes == <<"VANILLA", "RELAX">>

\* Line 83: the message names a player
RecalcUserBegin(p, u) ==
    /\ Idle(p)
    /\ nsub < MaxSubs
    /\ nsub' = nsub + 1
    /\ s' = [s EXCEPT ![p] = NoScore]
    /\ req' = [req EXCEPT ![p] =
                 [NoReq EXCEPT !.via = "recalc_user", !.user = u,
                               !.todo = all_modes,
                               !.all_ok = req[p].all_ok]]
    /\ pc' = [pc EXCEPT ![p] = "recalc_user"]
    /\ UNCHANGED <<scores, first_places, privVars, statVars, announced>>

\* Line 87, Stats.from_id: the cached object, or one built from the row
\* and cached
RecalcUserFetch(p) ==
    /\ pc[p] = "recalc_user"
    /\ req[p].todo # <<>>
    /\ LET u  == req[p].user
           c  == Head(req[p].todo)
           id == stats_cache[u][c]
       IN IF id # 0
          THEN /\ req' = [req EXCEPT ![p].stats = id]
               /\ UNCHANGED <<stats_objs, stats_cache>>
          ELSE /\ stats_objs' = Append(stats_objs, stats_sql[u][c])
               /\ stats_cache' = [stats_cache EXCEPT ![u][c] = Len(stats_objs) + 1]
               /\ req' = [req EXCEPT ![p].stats = Len(stats_objs) + 1]
    /\ pc' = [pc EXCEPT ![p] = "recalc_user_calc"]
    /\ UNCHANGED <<scores, first_places, privVars, stats_sql, announced, s, nsub>>

\* Lines 90-91: calc_max_combo and recalc_pp_acc_full set the object's
\* values; the loop goes on to the next variant. Nothing calls save.
RecalcUserCalc(p) ==
    /\ pc[p] = "recalc_user_calc"
    /\ stats_objs' = [stats_objs EXCEPT ![req[p].stats].pp =
                          recalc_pp_acc_full(scores, req[p].user, 0,
                                             Head(req[p].todo))]
    /\ IF Tail(req[p].todo) = <<>>
       THEN Return(p, [req[p] EXCEPT !.todo = <<>>], "recalculated")
       ELSE /\ req' = [req EXCEPT ![p].todo = Tail(@)]
            /\ pc' = [pc EXCEPT ![p] = "recalc_user"]
    /\ UNCHANGED <<scores, first_places, privVars, stats_sql, stats_cache,
                   announced, s, nsub>>

(***************************************************************************)
(* leaderboard_get_handler: the checks before the leaderboard is served.   *)
(***************************************************************************)
LbGates == {"ok", "badpass", "badmd5", "oldver"}
LbRequests == [user : Users, gate : LbGates]

\* a slip: the client version is looked at before the password
LbOutcome_VersionFirst(gate) ==
    CASE gate = "badpass" -> [resp |-> "error: pass", restrict |-> TRUE]
      [] gate = "badmd5"  -> [resp |-> "error: no", restrict |-> FALSE]
      [] gate = "oldver"  -> [resp |-> "error: no", restrict |-> TRUE]
      [] OTHER            -> [resp |-> "served", restrict |-> FALSE]

\* Lines 96-125: the response, and whether edit_user is called, by the
\* first check that fails (password, md5, client version)
LbOutcome(gate) ==
    CASE gate = "badpass" -> [resp |-> "error: pass", restrict |-> FALSE]
      [] gate = "badmd5"  -> [resp |-> "error: no", restrict |-> FALSE]
      [] gate = "oldver"  -> [resp |-> "error: no", restrict |-> TRUE]
      [] OTHER            -> [resp |-> "served", restrict |-> FALSE]

LeaderboardGet(p, lr) ==
    /\ Idle(p)
    /\ nsub < MaxSubs
    /\ nsub' = nsub + 1
    /\ IF LbOutcome(lr.gate).restrict
       THEN edit_user_restrict(lr.user, OLD_CLIENT)
       ELSE UNCHANGED privVars
    /\ s' = [s EXCEPT ![p] = NoScore]
    /\ Return(p, [NoReq EXCEPT !.via = "leaderboard", !.gate = lr.gate,
                               !.all_ok = req[p].all_ok],
              LbOutcome(lr.gate).resp)
    /\ UNCHANGED <<scores, first_places, statVars, announced>>

(***************************************************************************)
(* The cached leaderboard: insert_user_score.                              *)
(***************************************************************************)
MaxLbUsers == 3     \* players 1..MaxLbUsers appear on the cached leaderboard

\* the Scores handed to insert_user_score of a leaderboard of the variant:
\* BEST-classified, any player, any value of the metric the leaderboard
\* orders by (the other value is moot)
LbInserts(c_mode) ==
    {[NoScore EXCEPT !.md5 = "md5_ranked", !.user_id = u, !.c_mode = c_mode,
                     !.score = sv, !.pp = ppv, !.passed = TRUE,
                     !.completed = BEST]
        : u \in 1..MaxLbUsers,
          sv \in IF uses_ppboard(c_mode) THEN {1} ELSE RawScores,
          ppv \in IF uses_ppboard(c_mode) THEN PPValues ELSE {1}}

\* the metric a leaderboard of the variant orders by
LbMetric(c_mode, sc) == IF uses_ppboard(c_mode) THEN sc.pp ELSE sc.score

RECURSIVE RemoveUser(_, _)
\* the list without the rows of the player
RemoveUser(rows, u) ==
    IF rows = <<>> THEN <<>>
    ELSE IF Head(rows).user_id = u
         THEN RemoveUser(Tail(rows), u)
         ELSE <<Head(rows)>> \o RemoveUser(Tail(rows), u)

InsertAt(rows, k, row) ==
    SubSeq(rows, 1, k) \o <<row>> \o SubSeq(rows, k + 1, Len(rows))

\* the places a row may go in a list held in descending-metric order (the
\* order among equal metrics is left open)
SortedPlaces(rows, c_mode, sc) ==
    {k \in 0..Len(rows) :
        /\ \A i \in 1..k : LbMetric(c_mode, rows[i]) >= LbMetric(c_mode, sc)
        /\ \A i \in (k + 1)..Len(rows) :
              LbMetric(c_mode, rows[i]) <= LbMetric(c_mode, sc)}

\* a slip: the player's prior row is left in
insert_user_score_NoRemove(l, sc) ==
    {InsertAt(l.scores, k, sc) : k \in SortedPlaces(l.scores, l.c_mode, sc)}

\* Leaderboard.insert_user_score: the lists it may leave
insert_user_score(l, sc) ==
    LET rest == RemoveUser(l.scores, sc.user_id)
    IN {InsertAt(rest, k, sc) : k \in SortedPlaces(rest, l.c_mode, sc)}

LbInsertUserScore(sc) ==
    \E rows \in insert_user_score(lb, sc) :
        lb' = [lb EXCEPT !.scores = rows, !.inserted = sc,
                         !.replaced = \E i \in 1..Len(lb.scores) :
                                         lb.scores[i].user_id = sc.user_id]

(***************************************************************************)
(* The invalidation bus: the store as other processes change it, the       *)
(* caches of this process, and the pubsub handlers of ripple.py, ussr.py   *)
(* and rosu.py.                                                            *)
(***************************************************************************)
MaxLbBuilt  == 3    \* leaderboard objects built by lookups
MaxStoreOps == 2    \* changes other processes make to the store

Names   == {"a", "b", "c"}
LbModes == {0, 1}
\* CustomModes(int): the variant of its number
CustomModeOf(i) == IF i = 1 THEN "RELAX" ELSE "VANILLA"
\* the keys of cache.leaderboards: (md5, c_mode, mode)
LbKeys == {<<"md5_ranked", c, m>> : c \in CustomModes, m \in LbModes}

\* the events, by channel; a payload field a channel lacks is left blank
NoEvent == [kind |-> "none", user |-> 0, name |-> "", md5 |-> "", mode |-> 0,
            c_mode |-> 0]
RenameEvent(u, n)  == [NoEvent EXCEPT !.kind = "rename", !.user = u, !.name = n]
UserEvent(kind, u) == [NoEvent EXCEPT !.kind = kind, !.user = u]
DecacheEvent(md5)  == [NoEvent EXCEPT !.kind = "beatmap-decache", !.md5 = md5]
\* "md5:mode:c_mode"
RefreshEvent(md5, mode, c_mode) ==
    [NoEvent EXCEPT !.kind = "leaderboard-refresh", !.md5 = md5,
                    !.mode = mode, !.c_mode = c_mode]

\* a slot of the dict's entry array a deletion has emptied
Tomb == [key |-> <<>>, id |-> 0, meta |-> 0, rows |-> {}]
IsLive(entry) == entry.id # 0
LiveIds(d) == {d[i].id : i \in {j \in 1..Len(d) : IsLive(d[j])}}
LiveKeys(d) == {d[i].key : i \in {j \in 1..Len(d) : IsLive(d[j])}}
\* len(dict)
DictLen(d) == Cardinality(LiveIds(d))
\* the slot a cached key holds
SlotOf(d, k) == CHOOSE i \in 1..Len(d) : IsLive(d[i]) /\ d[i].key = k
\* deleting the entries: their slots stay, emptied
DictDel(d, ids) == [i \in 1..Len(d) |-> IF d[i].id \in ids THEN Tomb ELSE d[i]]

\* the score list of a leaderboard as the store gives it: the BEST rows
\* of the beatmap, variant and mode of publicly visible players, under the
\* names the users table holds
LbRows(tbl, privs, users, key) ==
    {[user_id |-> tbl[i].userid, username |-> users[tbl[i].userid].username] :
        i \in {j \in 1..Len(tbl) :
                  /\ tbl[j].beatmap_md5 = key[1]
                  /\ tbl[j].table = db_table(key[2])
                  /\ tbl[j].play_mode = key[3]
                  /\ tbl[j].completed = BEST
                  /\ privs[tbl[j].userid]}}

\* Leaderboard.change_username: the player's rows under the given name
change_username(rows, u, n) ==
    {IF r.user_id = u THEN [r EXCEPT !.username = n] ELSE r : r \in rows}

\* dict.values() iterated: the size at creation, the next slot, and the
\* number of entries still expected
NoIter == [used |-> 0, pos |-> 1, len |-> 0]
NewIter(d) == [used |-> DictLen(d), pos |-> 1, len |-> DictLen(d)]
\* the first live slot from pos on, or 0
NextSlot(d, pos) ==
    LET live == {i \in pos..Len(d) : IsLive(d[i])}
    IN IF live = {} THEN 0 ELSE CHOOSE i \in live : \A j \in live : i <= j
\* next() of the iterator: "raise", "stop" or "yield"; an entry found when
\* none is expected any more raises from Python 3.8 on and is yielded before
IterOutcomes(d, it) ==
    IF it.used # DictLen(d) THEN {"raise"}
    ELSE IF NextSlot(d, it.pos) = 0 THEN {"stop"}
    ELSE IF it.len = 0 THEN {"raise", "yield"}
    ELSE {"yield"}
IterAdvance(d, it) ==
    [it EXCEPT !.pos = NextSlot(d, it.pos) + 1,
               !.len = IF it.len = 0 THEN 0 ELSE it.len - 1]

NoHandler == [pc |-> "idle", event |-> NoEvent, it |-> NoIter, cur |-> 0,
              err |-> "", start |-> {}, refreshed |-> {}]

\* the caches of the process
Caches == <<name, clan, password, priv_cache, beatmaps, leaderboards>>

\* history of the handlings: prev is the event whose handling was the last
\* thing to happen, from its start to its end, and NoEvent otherwise; quiet
\* says that nothing but the handler has acted since the handling in
\* progress began; again that it handles prev once more, and snap is what
\* the caches were when it began
NoRepeat == [prev |-> NoEvent, quiet |-> TRUE, again |-> FALSE, snap |-> <<>>]
\* a step of something other than the handler
Disturb == rep' = [rep EXCEPT !.prev = NoEvent, !.quiet = FALSE]
\* a step of the handler
Track ==
    LET r0 == IF ev.pc \in {"idle", "done"}
              THEN [prev |-> NoEvent, quiet |-> TRUE,
                    again |-> rep.prev = ev'.event,
                    snap |-> IF rep.prev = ev'.event THEN Caches ELSE <<>>]
              ELSE rep
    IN rep' = IF ev'.pc = "done" /\ r0.quiet /\ ev'.err = ""
              THEN [r0 EXCEPT !.prev = ev'.event]
              ELSE r0

\* the score table of the bus runs: both players on the Vanilla board of
\* mode 0, player 1 on its Relax board, player 2 on the Vanilla board of
\* mode 1
BusScores ==
    <<Row([NoScore EXCEPT !.md5 = "md5_ranked", !.user_id = 1, !.score = 2,
                          !.passed = TRUE, !.completed = BEST]),
      Row([NoScore EXCEPT !.md5 = "md5_ranked", !.user_id = 2, !.score = 1,
                          !.passed = TRUE, !.completed = BEST]),
      Row([NoScore EXCEPT !.md5 = "md5_ranked", !.user_id = 1, !.pp = 1,
                          !.mods = "RX", !.c_mode = "RELAX",
                          !.passed = TRUE, !.completed = BEST]),
      Row([NoScore EXCEPT !.md5 = "md5_ranked", !.user_id = 2, !.score = 1,
                          !.mode = 1, !.passed = TRUE, !.completed = BEST])>>

\* the identity records, which the identity caches loaded at start-up
\* (passwords are cached on first login), and nothing else cached
BusInit ==
    /\ users_sql = [u \in Users |->
                      [username |-> IF u = 1 THEN "a" ELSE "z", clan |-> 0,
                       password |-> 1]]
    /\ bmap_sql = [m \in Beatmaps |-> 0]
    /\ name = [u \in Users |-> users_sql[u].username]
    /\ clan = [u \in Users |-> users_sql[u].clan]
    /\ password = [u \in Users |-> 0]
    /\ beatmaps = {}
    /\ leaderboards = <<>>
    /\ lb_built = 0
    /\ published = [sent |-> {}, handled |-> {}, ops |-> 0]
    /\ ev = NoHandler
    /\ rep = NoRepeat

HandlerIdle == ev.pc \in {"idle", "done"}

\* another process has changed the store and publishes the event
Publish(e) ==
    /\ published.ops < MaxStoreOps
    /\ published' = [sent |-> published.sent \cup {e},
                     handled |-> published.handled \ {e},
                     ops |-> published.ops + 1]
    /\ UNCHANGED ev

busCaches == <<name, clan, password, beatmaps, leaderboards, lb_built>>

StoreRename(u, n) ==
    /\ n # users_sql[u].username
    /\ users_sql' = [users_sql EXCEPT ![u].username = n]
    /\ Publish(RenameEvent(u, n))
    /\ UNCHANGED <<bmap_sql, busCaches, users_privs, priv_cache>>

\* a ban or unban, published on the ban channel or on the privilege channel
StorePrivilege(u, kind) ==
    /\ users_privs' = [users_privs EXCEPT ![u] = ~@]
    /\ Publish(UserEvent(kind, u))
    /\ UNCHANGED <<users_sql, bmap_sql, busCaches, priv_cache>>

StoreClan(u) ==
    /\ users_sql' = [users_sql EXCEPT ![u].clan = 1 - @]
    /\ Publish(UserEvent("clan-update", u))
    /\ UNCHANGED <<bmap_sql, busCaches, users_privs, priv_cache>>

StorePassword(u) ==
    /\ users_sql' = [users_sql EXCEPT ![u].password = @ + 1]
    /\ Publish(UserEvent("password-change", u))
    /\ UNCHANGED <<bmap_sql, busCaches, users_privs, priv_cache>>

\* a beatmap's status changes: its cached copy is to be dropped, or a
\* leaderboard of it rebuilt
StoreBeatmap(md5, e) ==
    /\ e.md5 = md5
    /\ bmap_sql' = [bmap_sql EXCEPT ![md5] = @ + 1]
    /\ Publish(e)
    /\ UNCHANGED <<users_sql, busCaches, users_privs, priv_cache>>

\* the sets of entries that may have expired together: every entry is put
\* once, with the one time to live, so the older expire first
OldestIds(d) == {{id \in LiveIds(d) : id <= n} : n \in 0..Len(d)}

\* a leaderboard request: from_cache, else the leaderboard is built from the
\* store and cached, and the maintenance pass of the put drops the expired
LbLookup(key, expired) ==
    /\ key \notin LiveKeys(leaderboards)
    /\ lb_built < MaxLbBuilt
    /\ expired \in OldestIds(leaderboards)
    /\ lb_built' = lb_built + 1
    /\ leaderboards' =
          DictDel(Append(leaderboards,
                         [key |-> key, id |-> lb_built + 1,
                          meta |-> bmap_sql[key[1]],
                          rows |-> LbRows(scores, users_privs, users_sql, key)]),
                  expired)
    /\ UNCHANGED <<users_sql, bmap_sql, name, clan, password, beatmaps,
                   published, users_privs, priv_cache, ev>>

\* a request that needs the beatmap caches it
BeatmapLoad(md5) ==
    /\ md5 \notin beatmaps
    /\ beatmaps' = beatmaps \cup {md5}
    /\ UNCHANGED <<users_sql, bmap_sql, name, clan, password, leaderboards,
                   lb_built, published, users_privs, priv_cache, ev>>

\* a login caches the player's password hash
Login(u) ==
    /\ password[u] # users_sql[u].password
    /\ password' = [password EXCEPT ![u] = users_sql[u].password]
    /\ UNCHANGED <<users_sql, bmap_sql, name, clan, beatmaps, leaderboards,
                   lb_built, published, users_privs, priv_cache, ev>>

\* the handler of a delivered event starts
Started(e) == [NoHandler EXCEPT !.event = e]
\* ... and ends
Ended(h, err) ==
    [h EXCEPT !.pc = "done", !.err = err, !.it = NoIter, !.cur = 0]
Handled(e) ==
    published' = [published EXCEPT !.handled = @ \cup {e}]
Delivered(e, kind) ==
    /\ HandlerIdle
    /\ e \in published.sent
    /\ e.kind = kind

storeVarsBus == <<users_sql, bmap_sql, users_privs, lb_built>>
busStore     == <<users_sql, bmap_sql, users_privs, lb_built, published>>

\* ripple.py, username_change_pubsub
username_change_pubsub(e) ==
    /\ Delivered(e, "rename")
    /\ name' = [name EXCEPT ![e.user] = users_sql[e.user].username]
    /\ leaderboards' =
          [i \in 1..Len(leaderboards) |->
              [leaderboards[i] EXCEPT
                  !.rows = change_username(@, e.user, e.name)]]
    /\ ev' = Ended(Started(e), "")
    /\ Handled(e)
    /\ UNCHANGED <<storeVarsBus, clan, password, beatmaps, priv_cache>>

\* ripple.py, update_cached_privileges_pubsub
update_cached_privileges_pubsub(e) ==
    /\ Delivered(e, "privilege-refresh")
    /\ priv_cache' = [priv_cache EXCEPT ![e.user] = users_privs[e.user]]
    /\ ev' = Ended(Started(e), "")
    /\ UNCHANGED <<busStore, name, clan, password, beatmaps, leaderboards>>

\* ripple.py, change_pass_pubsub
change_pass_pubsub_Reload(e) ==
    /\ Delivered(e, "password-change")
    /\ password' = [password EXCEPT ![e.user] =
                       IF @ = 0 THEN users_sql[e.user].password ELSE 0]
    /\ ev' = Ended(Started(e), "")
    /\ UNCHANGED <<busStore, name, clan, beatmaps, leaderboards, priv_cache>>
change_pass_pubsub(e) ==
    /\ Delivered(e, "password-change")
    /\ password' = [password EXCEPT ![e.user] = 0]
    /\ ev' = Ended(Started(e), "")
    /\ UNCHANGED <<busStore, name, clan, beatmaps, leaderboards, priv_cache>>

\* rosu.py, clan_update_pubsub
clan_update_pubsub(e) ==
    /\ Delivered(e, "clan-update")
    /\ clan' = [clan EXCEPT ![e.user] = users_sql[e.user].clan]
    /\ ev' = Ended(Started(e), "")
    /\ UNCHANGED <<busStore, name, password, beatmaps, leaderboards,
                   priv_cache>>

\* ussr.py, drop_bmap_cache_pubsub
drop_bmap_cache_pubsub(e) ==
    /\ Delivered(e, "beatmap-decache")
    /\ beatmaps' = beatmaps \ {e.md5}
    /\ ev' = Ended(Started(e), "")
    /\ UNCHANGED <<busStore, name, clan, password, leaderboards, priv_cache>>

\* the for loop over get_all_items() asks for the next leaderboard: the
\* handler ends at the end of the dict or with the RuntimeError of a dict
\* that changed size, or is suspended in the refresh of the one yielded
BanLoop(h) ==
    \E out \in IterOutcomes(leaderboards, h.it) :
        ev' = CASE out = "raise" -> Ended(h, "RuntimeError")
                [] out = "stop"  -> Ended(h, "")
                [] out = "yield" ->
                      [h EXCEPT !.pc = "ban_refresh",
                                !.cur = leaderboards[NextSlot(leaderboards,
                                                              h.it.pos)].id,
                                !.it = IterAdvance(leaderboards, h.it)]

\* ripple.py, ban_reload_pubsub, to its first suspension in a refresh
ban_reload_pubsub(e) ==
    /\ Delivered(e, "ban-toggle")
    /\ priv_cache' = [priv_cache EXCEPT ![e.user] = users_privs[e.user]]
    /\ IF users_privs[e.user]
       THEN ev' = Ended(Started(e), "")
       ELSE BanLoop([Started(e) EXCEPT !.it = NewIter(leaderboards),
                                       !.start = LiveIds(leaderboards)])
    /\ UNCHANGED <<busStore, name, clan, password, beatmaps, leaderboards>>

\* Leaderboard.refresh of the object: its score list is rebuilt from the
\* store (an object no longer cached is rebuilt all the same)
Refreshed(d, id) ==
    [i \in 1..Len(d) |->
        IF IsLive(d[i]) /\ d[i].id = id
        THEN [d[i] EXCEPT !.rows = LbRows(scores, users_privs, users_sql,
                                          d[i].key)]
        ELSE d[i]]

\* ... the refresh returns and the loop goes on
BanRefresh ==
    /\ ev.pc = "ban_refresh"
    /\ leaderboards' = Refreshed(leaderboards, ev.cur)
    /\ BanLoop([ev EXCEPT !.refreshed = @ \cup {ev.cur}])
    /\ UNCHANGED <<busStore, name, clan, password, beatmaps, priv_cache>>

\* GlobalLeaderboard.from_cache(md5, c_mode, mode): the id of the cached
\* leaderboard of the key, or 0
from_cache(md5, c_mode, mode) ==
    IF <<md5, c_mode, mode>> \in LiveKeys(leaderboards)
    THEN leaderboards[SlotOf(leaderboards, <<md5, c_mode, mode>>)].id
    ELSE 0

\* a slip: the payload read as "md5:c_mode:mode"
refresh_leaderboard_pubsub_VariantFirst(e) ==
    /\ Delivered(e, "leaderboard-refresh")
    /\ beatmaps' = beatmaps \ {e.md5}
    /\ LET id == from_cache(e.md5, CustomModeOf(e.mode), e.c_mode)
       IN ev' = IF id = 0 THEN Ended(Started(e), "")
                ELSE [Started(e) EXCEPT !.pc = "lb_meta", !.cur = id]
    /\ UNCHANGED <<busStore, name, clan, password, leaderboards, priv_cache>>
\* ussr.py, refresh_leaderboard_pubsub, to the suspension in refresh_beatmap
refresh_leaderboard_pubsub(e) ==
    /\ Delivered(e, "leaderboard-refresh")
    /\ beatmaps' = beatmaps \ {e.md5}
    /\ LET id == from_cache(e.md5, CustomModeOf(e.c_mode), e.mode)
       IN ev' = IF id = 0 THEN Ended(Started(e), "")
                ELSE [Started(e) EXCEPT !.pc = "lb_meta", !.cur = id]
    /\ UNCHANGED <<busStore, name, clan, password, leaderboards, priv_cache>>

\* ... refresh_beatmap returns: the metadata is re-read, the score list kept
RefreshBeatmapDone ==
    /\ ev.pc = "lb_meta"
    /\ leaderboards' =
          [i \in 1..Len(leaderboards) |->
              IF IsLive(leaderboards[i]) /\ leaderboards[i].id = ev.cur
              THEN [leaderboards[i] EXCEPT
                       !.meta = bmap_sql[leaderboards[i].key[1]]]
              ELSE leaderboards[i]]
    /\ ev' = [ev EXCEPT !.pc = "lb_rows"]
    /\ UNCHANGED <<busStore, name, clan, password, beatmaps, priv_cache>>

\* ... refresh returns
RefreshDone ==
    /\ ev.pc = "lb_rows"
    /\ leaderboards' = Refreshed(leaderboards, ev.cur)
    /\ ev' = Ended([ev EXCEPT !.refreshed = @ \cup {ev.cur}], "")
    /\ UNCHANGED <<busStore, name, clan, password, beatmaps, priv_cache>>

(***************************************************************************)
(* The bonus query alone: __calc_bonus_pp on any number of qualifying      *)
(* rows.                                                                   *)
(***************************************************************************)
MaxOverCap == 60    \* players have BonusCap - MaxOverCap .. BonusCap + MaxOverCap rows

NoBonus == [rows |-> 0, count |-> 0, calls |-> 0]
BonusInit == bonus = NoBonus

\* one more qualifying BEST row of the player
MoreScores ==
    /\ bonus.rows < BonusCap + MaxOverCap
    /\ bonus' = [bonus EXCEPT !.rows = @ + 1]

\* Lines 223-232: the count the bonus term is computed from
CalcBonus ==
    bonus' = [bonus EXCEPT !.count = SelectCountLimit(bonus.rows, BonusCap),
                           !.calls = 1]

(***************************************************************************)
(* The recalculation threshold: Stats.recalc_pp_acc_full called with       *)
(* _run_pp, for a player with about a hundred qualifying rows (each the    *)
(* BEST row of a ranked beatmap of its own) in one mode and variant.       *)
(***************************************************************************)
MaxTopPP   == 3     \* performance values are 1..MaxTopPP
MaxSpare   == 1     \* players start with TopLimit - MaxSpare .. TopLimit + MaxSpare rows
MaxTopSubs == 4     \* submissions, restrictions and recalculations of a run

TopPPs == 1..MaxTopPP

RECURSIVE RowsFrom(_, _)
\* the number of rows whose pp is v or more
RowsFrom(rows, v) ==
    IF v > MaxTopPP THEN 0 ELSE rows[v] + RowsFrom(rows, v + 1)

\* "ORDER BY s.pp DESC LIMIT 100" on the rows kept by pp: how many rows of
\* each pp the result holds
TopRows(rows) ==
    [v \in TopPPs |->
        Min(rows[v], IF RowsFrom(rows, v + 1) >= TopLimit THEN 0
                     ELSE TopLimit - RowsFrom(rows, v + 1))]

\* lst_idx and s_pp after the loop of lines 172-175
LastIdx(scores_db) ==
    IF RowsFrom(scores_db, 1) = 0 THEN 0 ELSE RowsFrom(scores_db, 1) - 1
LastPp(scores_db) ==
    CHOOSE v \in TopPPs :
        scores_db[v] > 0 /\ \A w \in TopPPs : scores_db[w] > 0 => v <= w

\* _run_pp = None
NoRunPp == -1

\* Stats.pp here: t_pp, the sum of s_pp * 0.95^idx over the query's result
\* in order, is kept as the result (which determines the sum, and results
\* that differ in pps below 19 give sums that differ); the bonus term as
\* the count it was computed from; stray is set once a bonus term was
\* subtracted that pp did not hold
TopPp(scores_db, c) == [weighted |-> scores_db, bonus_count |-> c, stray |-> FALSE]

\* __calc_bonus_pp on the rows kept by pp
top_bonus_count(rows) == SelectCountLimit(RowsFrom(rows, 1), BonusCap)

\* the full recomputation, lines 157-183: pp afterwards
TopFull(rows) == TopPp(TopRows(rows), top_bonus_count(rows))

\* Stats.recalc_pp_acc_full(_run_pp), lines 146-183, on the object st: the
\* shortcut swaps the bonus term; the full recomputation sets pp, the bonus
\* term and, with a hundred rows in the result, the threshold
recalc_with_run_pp(st, rows, _run_pp) ==
    IF /\ st._required_recalc_pp # 0
       /\ _run_pp # NoRunPp
       /\ _run_pp < st._required_recalc_pp
    THEN [st EXCEPT !.pp = [@ EXCEPT !.bonus_count = top_bonus_count(rows),
                                     !.stray = @ \/ st.pp.bonus_count # st._cur_bonus_pp],
                    !._cur_bonus_pp = top_bonus_count(rows)]
    ELSE [pp |-> TopFull(rows),
          _required_recalc_pp |->
              IF LastIdx(TopRows(rows)) = 99 THEN LastPp(TopRows(rows))
              ELSE st._required_recalc_pp,
          _cur_bonus_pp |-> top_bonus_count(rows)]

\* does the call take the shortcut
TakesShortcut(st, _run_pp) ==
    st._required_recalc_pp # 0 /\ _run_pp # NoRunPp /\ _run_pp < st._required_recalc_pp

\* the player away from the threshold: no rows, public, no Stats object use
NoTop == [rows |-> [v \in TopPPs |-> 0], restricted |-> FALSE,
          stats |-> [pp |-> TopFull([v \in TopPPs |-> 0]),
                     _required_recalc_pp |-> 0, _cur_bonus_pp |-> 0],
          last |-> "none", n |-> 0]
ShortcutInit == thr = NoTop

\* calc_completed, lines 202-217, and __insert: the rows after a passed
\* play worth v on a ranked beatmap whose BEST row of the player is worth
\* old (0: the player has none there)
TopIsBest(v, old) == old = 0 \/ old < v
TopInserted(rows, v, old) ==
    LET demoted == IF old # 0 /\ old < v THEN [rows EXCEPT ![old] = @ - 1]
                   ELSE rows
    IN IF TopIsBest(v, old) THEN [demoted EXCEPT ![v] = @ + 1] ELSE demoted

\* score_submit_handler, lines 57-163, for such a play of the player: the
\* privileges are the cached ones, submit raises for a public player's BEST
\* (its line 436), and the Stats object is the cached one
TopSubmit(v, old) ==
    /\ thr.n < MaxTopSubs
    /\ old # 0 => thr.rows[old] > 0
    /\ LET rows == TopInserted(thr.rows, v, old)
       IN IF TopIsBest(v, old) /\ ~thr.restricted
          THEN thr' = [thr EXCEPT !.rows = rows, !.last = "AttributeError",
                                  !.n = @ + 1]
          ELSE IF TopIsBest(v, old)
          THEN thr' = [thr EXCEPT !.rows = rows,
                                  !.stats = recalc_with_run_pp(@, rows, v),
                                  !.last = IF TakesShortcut(thr.stats, v)
                                           THEN "shortcut" ELSE "full",
                                  !.n = @ + 1]
          ELSE thr' = [thr EXCEPT !.rows = rows, !.last = "none", !.n = @ + 1]

\* score_submit_handler, lines 165-172, for a failed play of the player sent
\* without its replay: edit_user restricts them
TopRestrict ==
    /\ thr.n < MaxTopSubs
    /\ ~thr.restricted
    /\ thr' = [thr EXCEPT !.restricted = TRUE, !.last = "none", !.n = @ + 1]

\* recalc_user_pubsub, ussr.py lines 87-91: the cached object recomputed
TopRecalcUser ==
    /\ thr.n < MaxTopSubs
    /\ thr' = [thr EXCEPT !.stats = recalc_with_run_pp(@, thr.rows, NoRunPp),
                          !.last = "full", !.n = @ + 1]

\* ---------------------------------------------------------------------------
\* The rank read: the ranking board of one mode and variant is a sorted set of
\* the ranking store, here the player ids in descending order of pp
\* ---------------------------------------------------------------------------
MaxRankUsers == 3   \* players 1..MaxRankUsers may be on the board
MaxRankReads == 2   \* rank reads and board writes of a behaviour, each

RankUsers == 1..MaxRankUsers
Nil == -1           \* the store's answer for a member that is not there
None == -2          \* Python's None

\* the boards: the sequences of distinct players
RankBoards ==
    UNION {{b \in [1..n -> RankUsers] :
               \A i, j \in 1..n : i # j => b[i] # b[j]} : n \in 0..MaxRankUsers}

\* ZREVRANK: the zero-based position of the member from the highest score
zrevrank(board, user_id) ==
    IF \E i \in 1..Len(board) : board[i] = user_id
    THEN (CHOOSE i \in 1..Len(board) : board[i] = user_id) - 1
    ELSE Nil

\* the truth value Python gives the store's answer: None and 0 are false
Truthy(rank) == rank # Nil /\ rank # 0

\* get_rank_redis, lines 50-55: int(rank) + 1 if rank else None
get_rank_redis(board, user_id) ==
    LET rank == zrevrank(board, user_id)
    IN IF Truthy(rank) THEN rank + 1 ELSE None

NoRankRead == [board |-> <<>>, user |-> 0, pos |-> Nil, rank |-> 0,
               reads |-> 0, writes |-> 0]
RankReadInit == rankq = NoRankRead

\* ZADD of update_lb_pos: the player takes the place their pp gives them,
\* any place of the board
RankBoardZadd(u, k) ==
    /\ rankq.writes < MaxRankReads
    /\ LET rest == SelectSeq(rankq.board, LAMBDA x : x # u)
       IN /\ k \in 0..Len(rest)
          /\ rankq' = [rankq EXCEPT
                !.board = SubSeq(rest, 1, k) \o <<u>> \o SubSeq(rest, k + 1, Len(rest)),
                !.writes = @ + 1]

\* Stats.update_rank: self.rank = get_rank_redis(user_id, mode, c_mode);
\* pos is the player's position on the board at the time of the read
update_rank(u) ==
    /\ rankq.reads < MaxRankReads
    /\ rankq' = [rankq EXCEPT !.user = u,
                              !.pos = zrevrank(rankq.board, u),
                              !.rank = get_rank_redis(rankq.board, u),
                              !.reads = @ + 1]

RankIdle ==
    UNCHANGED <<cacheVars, subVars, lbVars, busVars, rep, bonus, thr,
                no_check_md5s, lbreq>>

(***************************************************************************)
(* leaderboard_get_handler with the known non-existent beatmaps: lines     *)
(* 96-150 and the leaderboard served.                                      *)
(***************************************************************************)
MaxLbReqs == 3      \* leaderboard requests of a run

\* _status_header(Status.NOT_SUBMITTED)
StatusHeader == "-1|false"

\* the hash a request carries: one that fails validate_md5 when that is the
\* check it fails
Malformed == "malformed"
validate_md5(md5) == md5 # Malformed

NoLbReq == [md5 |-> "", gate |-> "none", resp |-> "none", known |-> FALSE,
            lookup |-> FALSE, after |-> FALSE, n |-> 0]
NoCheckInit == no_check_md5s = {} /\ lbreq = NoLbReq

\* lines 127-150: the answer of a request that has passed the checks, for a
\* lookup that finds a leaderboard or none
NoCheckAnswer(md5, found) ==
    IF md5 \in no_check_md5s THEN StatusHeader
    ELSE IF ~found THEN StatusHeader ELSE "served"

\* is the leaderboard looked up (lines 133-145)
LooksUp(gate, md5) == gate = "ok" /\ md5 \notin no_check_md5s

\* a slip: the set is consulted only once the lookup has found nothing
leaderboard_get_handler_LookupFirst(lr, hash, found) ==
    /\ lbreq.n < MaxLbReqs
    /\ LET md5   == IF lr.gate = "badmd5" THEN Malformed ELSE hash
           key   == <<md5, "VANILLA", 0>>
           looks == lr.gate = "ok"
           build == looks /\ found /\ key \notin LiveKeys(leaderboards)
       IN /\ build => lb_built < MaxLbBuilt
          /\ IF LbOutcome(lr.gate).restrict
             THEN edit_user_restrict(lr.user, OLD_CLIENT)
             ELSE UNCHANGED privVars
          /\ no_check_md5s' = IF looks /\ ~found THEN no_check_md5s \cup {md5}
                              ELSE no_check_md5s
          /\ IF build
             THEN /\ lb_built' = lb_built + 1
                  /\ leaderboards' =
                        Append(leaderboards,
                               [key |-> key, id |-> lb_built + 1,
                                meta |-> bmap_sql[md5],
                                rows |-> LbRows(scores, users_privs, users_sql, key)])
             ELSE UNCHANGED <<leaderboards, lb_built>>
          /\ lbreq' = [md5 |-> md5, gate |-> lr.gate,
                       resp |-> IF lr.gate = "ok"
                                THEN IF found THEN "served" ELSE StatusHeader
                                ELSE LbOutcome(lr.gate).resp,
                       known |-> md5 \in no_check_md5s,
                       lookup |-> looks,
                       after |-> ev.pc = "done" /\ ev.event.md5 = md5,
                       n |-> lbreq.n + 1]
    /\ UNCHANGED <<cacheVars, scores, first_places, stats_sql, announced,
                   stats_objs, stats_cache, pc, s, req, nsub, lb, bonus, thr,
                   users_sql, bmap_sql, name, clan, password, beatmaps,
                   published, ev, rep, rankq>>

\* leaderboard_get_handler, lines 96-150, for the global leaderboard of mode
\* 0 without mods: the checks, the known non-existent beatmaps, the lookup
\* (from the cache, or built and cached), and the hash remembered when the
\* lookup finds nothing
leaderboard_get_handler(lr, hash, found) ==
    /\ lbreq.n < MaxLbReqs
    /\ LET md5   == IF lr.gate = "badmd5" THEN Malformed ELSE hash
           key   == <<md5, "VANILLA", 0>>
           looks == LooksUp(lr.gate, md5)
           build == looks /\ found /\ key \notin LiveKeys(leaderboards)
       IN /\ build => lb_built < MaxLbBuilt
          /\ IF LbOutcome(lr.gate).restrict
             THEN edit_user_restrict(lr.user, OLD_CLIENT)
             ELSE UNCHANGED privVars
          /\ no_check_md5s' = IF looks /\ ~found THEN no_check_md5s \cup {md5}
                              ELSE no_check_md5s
          /\ IF build
             THEN /\ lb_built' = lb_built + 1
                  /\ leaderboards' =
                        Append(leaderboards,
                               [key |-> key, id |-> lb_built + 1,
                                meta |-> bmap_sql[md5],
                                rows |-> LbRows(scores, users_privs, users_sql, key)])
             ELSE UNCHANGED <<leaderboards, lb_built>>
          /\ lbreq' = [md5 |-> md5, gate |-> lr.gate,
                       resp |-> IF lr.gate = "ok" THEN NoCheckAnswer(md5, found)
                                ELSE LbOutcome(lr.gate).resp,
                       known |-> md5 \in no_check_md5s,
                       lookup |-> looks,
                       after |-> ev.pc = "done" /\ ev.event.md5 = md5,
                       n |-> lbreq.n + 1]
    /\ UNCHANGED <<cacheVars, scores, first_places, stats_sql, announced,
                   stats_objs, stats_cache, pc, s, req, nsub, lb, bonus, thr,
                   users_sql, bmap_sql, name, clan, password, beatmaps,
                   published, ev, rep, rankq>>

(***************************************************************************)
(* Specifications.                                                         *)
(***************************************************************************)
BusIdle   == UNCHANGED <<busVars, rep, bonus, thr, no_check_md5s, lbreq, rankq>>
CacheIdle == UNCHANGED <<cacheVars, lbVars>> /\ BusIdle
SubIdle   == UNCHANGED <<subVars, lbVars>> /\ BusIdle

\* the Cache alone, under any sequence of calls
InitCache == CacheInit /\ SubInit /\ BusInit /\ BonusInit /\ ShortcutInit /\ RankingInit /\ NoCheckInit /\ RankReadInit
NextCache ==
    \/ \E k \in CacheKeys, v \in Objects : Cache_cache(k, v) /\ SubIdle
    \/ \E k \in CacheKeys : Cache_drop(k) /\ SubIdle
    \/ \E k \in CacheKeys : Cache_get(k) /\ SubIdle
    \/ \E q \in Patterns : Cache_remove_all_elements(q) /\ SubIdle
    \/ Tick /\ SubIdle
SpecCache == InitCache /\ [][NextCache]_vars

InitSub == CacheInit /\ _cache_limit = 1 /\ SubInit /\ BusInit /\ BonusInit /\ ShortcutInit /\ RankingInit /\ NoCheckInit /\ RankReadInit

\* the players are alike until one has submitted: the first request of a
\* run is player 1's
FirstIsPlayerOne(sub) == nsub = 0 => sub.user = 1

\* requests handled one after another
NextSeq ==
    \/ Idle(1) /\ nsub < MaxSubs
          /\ \E sub \in SeqSubmissions :
                FirstIsPlayerOne(sub) /\ Begin(1, sub) /\ CacheIdle
    \/ Idle(1) /\ nsub < MaxSubs
          /\ \E lr \in LbRequests :
                FirstIsPlayerOne(lr) /\ LeaderboardGet(1, lr) /\ CacheIdle
    \/ Anticheat(1) /\ CacheIdle
    \/ DupeCheck(1) /\ CacheIdle
    \/ LoadStats(1) /\ CacheIdle
    \/ StatsFromSql(1) /\ CacheIdle
    \/ StatsCache(1) /\ CacheIdle
    \/ FetchPrev(1) /\ CacheIdle
    \/ CalcCompletedUpdate(1) /\ CacheIdle
    \/ CalcCompletedSelect(1) /\ CacheIdle
    \/ CalcPlacement(1) /\ CacheIdle
    \/ Insert(1) /\ CacheIdle
    \/ FirstPlaceDelete(1) /\ CacheIdle
    \/ FirstPlaceInsert(1) /\ CacheIdle
    \/ RaiseAttributeError(1) /\ CacheIdle
    \/ UpdateStats(1) /\ CacheIdle
    \/ SaveStats(1) /\ CacheIdle
    \/ ReplayCheck(1) /\ CacheIdle
    \/ Finish(1) /\ CacheIdle
SpecSeq == InitSub /\ [][NextSeq]_vars

\* the same, with player 1 restricted before the first request
InitRestricted ==
    /\ CacheInit /\ _cache_limit = 1
    /\ SubInitWith([u \in Users |-> u # 1], NoLb)
    /\ BusInit /\ BonusInit /\ ShortcutInit /\ RankingInit /\ NoCheckInit /\ RankReadInit
SpecSeqR == InitRestricted /\ [][NextSeq]_vars

\* submissions of one player interleaved at their suspension points (no
\* request of these reaches recalc_pp_acc_full: a BEST score of a player who
\* is not restricted ends in Score.submit)
NextConc ==
    \/ \E p \in Procs : Idle(p) /\ nsub < MaxSubs
          /\ \E sub \in ConcSubmissions : Begin(p, sub) /\ CacheIdle
    \/ \E p \in Procs : Anticheat(p) /\ CacheIdle
    \/ \E p \in Procs : DupeCheck(p) /\ CacheIdle
    \/ \E p \in Procs : LoadStats(p) /\ CacheIdle
    \/ \E p \in Procs : StatsFromSql(p) /\ CacheIdle
    \/ \E p \in Procs : StatsCache(p) /\ CacheIdle
    \/ \E p \in Procs : FetchPrev(p) /\ CacheIdle
    \/ \E p \in Procs : CalcCompletedUpdate(p) /\ CacheIdle
    \/ \E p \in Procs : CalcCompletedSelect(p) /\ CacheIdle
    \/ \E p \in Procs : CalcPlacement(p) /\ CacheIdle
    \/ \E p \in Procs : Insert(p) /\ CacheIdle
    \/ \E p \in Procs : FirstPlaceDelete(p) /\ CacheIdle
    \/ \E p \in Procs : FirstPlaceInsert(p) /\ CacheIdle
    \/ \E p \in Procs : RaiseAttributeError(p) /\ CacheIdle
    \/ \E p \in Procs : UpdateStats(p) /\ CacheIdle
    \/ \E p \in Procs : ReplayCheck(p) /\ CacheIdle
    \/ \E p \in Procs : Finish(p) /\ CacheIdle
SpecConc == InitSub /\ [][NextConc]_vars

\* failed plays of player 1 on one board, interleaved: the Stats pipeline
MaxStatSubs == 3
StatsPlays ==
    PlainPlays({1}, {"md5_ranked"}, {"NM"}, RawScores, {FALSE}, {FALSE},
               {1}, {FALSE})
NextStats ==
    \/ \E p \in Procs : Idle(p) /\ nsub < MaxStatSubs
          /\ \E sub \in StatsPlays : BeginUpTo(p, sub, MaxStatSubs) /\ CacheIdle
    \/ \E p \in Procs : Anticheat(p) /\ CacheIdle
    \/ \E p \in Procs : DupeCheck(p) /\ CacheIdle
    \/ \E p \in Procs : LoadStats(p) /\ CacheIdle
    \/ \E p \in Procs : StatsFromSql(p) /\ CacheIdle
    \/ \E p \in Procs : StatsCache(p) /\ CacheIdle
    \/ \E p \in Procs : CalcCompletedUpdate(p) /\ CacheIdle
    \/ \E p \in Procs : CalcPlacement(p) /\ CacheIdle
    \/ \E p \in Procs : Insert(p) /\ CacheIdle
    \/ \E p \in Procs : UpdateStats(p) /\ CacheIdle
    \/ \E p \in Procs : ReplayCheck(p) /\ CacheIdle
    \/ \E p \in Procs : Finish(p) /\ CacheIdle
SpecStats == InitSub /\ [][NextStats]_vars

\* Score.submit called directly (as utils/replay_insert.py does, with
\* restricted left at its default), one call after another, on a Score
\* whose placement is 0 or was set to 1 by the caller
NextSubmit ==
    \/ Idle(1) /\ nsub < MaxSubs
          /\ \E sub \in DirectSubmissions, pl \in {0, 1} :
                FirstIsPlayerOne(sub) /\ DirectSubmit(1, sub, pl, FALSE) /\ CacheIdle
    \/ CalcCompletedUpdate(1) /\ CacheIdle
    \/ CalcCompletedSelect(1) /\ CacheIdle
    \/ CalcPlacement(1) /\ CacheIdle
    \/ Insert(1) /\ CacheIdle
    \/ FirstPlaceDelete(1) /\ CacheIdle
    \/ FirstPlaceInsert(1) /\ CacheIdle
    \/ RaiseAttributeError(1) /\ CacheIdle
    \/ SubmitReturns(1) /\ CacheIdle
SpecSubmit == InitSub /\ [][NextSubmit]_vars

\* direct Score.submit calls and recalc_pp and recalc_user messages, one
\* after another
NextRecalc ==
    \/ Idle(1) /\ nsub < MaxSubs
          /\ \E sub \in DirectSubmissions :
                FirstIsPlayerOne(sub) /\ DirectSubmit(1, sub, 0, FALSE) /\ CacheIdle
    \/ Idle(1) /\ nsub < MaxSubs
          /\ \E id \in 1..Len(scores), calc \in PPValues, raises \in BOOLEAN :
                RecalcBegin(1, id, calc, raises) /\ CacheIdle
    \/ RecalcSave(1) /\ CacheIdle
    \/ Idle(1) /\ nsub < MaxSubs
          /\ \E u \in Users : RecalcUserBegin(1, u) /\ CacheIdle
    \/ RecalcUserFetch(1) /\ CacheIdle
    \/ RecalcUserCalc(1) /\ CacheIdle
    \/ CalcCompletedUpdate(1) /\ CacheIdle
    \/ CalcCompletedSelect(1) /\ CacheIdle
    \/ CalcPlacement(1) /\ CacheIdle
    \/ Insert(1) /\ CacheIdle
    \/ FirstPlaceDelete(1) /\ CacheIdle
    \/ FirstPlaceInsert(1) /\ CacheIdle
    \/ RaiseAttributeError(1) /\ CacheIdle
    \/ SubmitReturns(1) /\ CacheIdle
SpecRecalc == InitSub /\ [][NextRecalc]_vars

\* the cached leaderboard alone, under any sequence of inserts
InitLb ==
    /\ CacheInit /\ _cache_limit = 1
    /\ \E c \in CustomModes :
          SubInitWith([u \in Users |-> TRUE], [NoLb EXCEPT !.c_mode = c])
    /\ BusInit /\ BonusInit /\ ShortcutInit /\ RankingInit /\ NoCheckInit /\ RankReadInit
NextLb ==
    \E sc \in LbInserts(lb.c_mode) :
        LbInsertUserScore(sc) /\ UNCHANGED cacheVars /\ UNCHANGED subVars
                              /\ BusIdle
SpecLb == InitLb /\ [][NextLb]_vars

\* the bonus query, for players with about BonusCap qualifying rows
InitBonus ==
    /\ CacheInit /\ _cache_limit = 1 /\ SubInit /\ BusInit /\ ShortcutInit /\ RankingInit /\ NoCheckInit /\ RankReadInit
    /\ \E n \in (BonusCap - MaxOverCap)..(BonusCap + MaxOverCap) :
          bonus = [NoBonus EXCEPT !.rows = n]
\* the bus: the store changes (for player 1 and the ranked beatmap),
\* requests fill the caches (with the leaderboards of mode 0,
\* none of which expires) and the events are delivered in any order and any
\* number of times, one handler at a time
busRest == <<cacheVars, scores, first_places, stats_sql, rap_logs, announced,
             stats_objs, stats_cache, pc, s, req, nsub, lb, bonus, thr, ranking,
             no_check_md5s, lbreq, rankq>>
\* a step of the store, of another request, or of the handler, with and
\* without the history
Other    == Disturb /\ UNCHANGED busRest
Handling == Track /\ UNCHANGED busRest
Plain    == UNCHANGED <<rep, busRest>>
InitBus ==
    /\ CacheInit /\ _cache_limit = 1
    /\ SubInitOn(BusScores, [u \in Users |-> TRUE], NoLb)
    /\ BusInit /\ BonusInit /\ ShortcutInit /\ RankingInit /\ NoCheckInit /\ RankReadInit
NextBus ==
    \/ \E n \in {"a", "b"} : StoreRename(1, n) /\ Other
    \/ \E kind \in {"ban-toggle", "privilege-refresh"} :
          StorePrivilege(1, kind) /\ Other
    \/ StoreClan(1) /\ Other
    \/ StorePassword(1) /\ Other
    \/ \E e \in {DecacheEvent("md5_ranked")}
                 \cup {RefreshEvent("md5_ranked", 0, c) : c \in 0..1} :
          StoreBeatmap("md5_ranked", e) /\ Other
    \/ \E c \in CustomModes : LbLookup(<<"md5_ranked", c, 0>>, {}) /\ Other
    \/ BeatmapLoad("md5_ranked") /\ Other
    \/ Login(1) /\ Other
    \/ \E e \in published.sent : username_change_pubsub(e) /\ Handling
    \/ \E e \in published.sent :
          update_cached_privileges_pubsub(e) /\ Handling
    \/ \E e \in published.sent : change_pass_pubsub(e) /\ Handling
    \/ \E e \in published.sent : clan_update_pubsub(e) /\ Handling
    \/ \E e \in published.sent : drop_bmap_cache_pubsub(e) /\ Handling
    \/ \E e \in published.sent : ban_reload_pubsub(e) /\ Handling
    \/ BanRefresh /\ Handling
    \/ \E e \in published.sent :
          refresh_leaderboard_pubsub(e) /\ Handling
    \/ RefreshBeatmapDone /\ Handling
    \/ RefreshDone /\ Handling
SpecBus == InitBus /\ [][NextBus]_vars

\* bans and unbans, leaderboard requests, and the ban handler
NextBan ==
    \/ \E u \in Users : StorePrivilege(u, "ban-toggle") /\ Plain
    \/ \E key \in LbKeys, expired \in OldestIds(leaderboards) :
          LbLookup(key, expired) /\ Plain
    \/ \E e \in published.sent : ban_reload_pubsub(e) /\ Plain
    \/ BanRefresh /\ Plain
SpecBan == InitBus /\ [][NextBan]_vars

\* renames, leaderboard requests, and the rename handler
NextRename ==
    \/ \E n \in Names : StoreRename(1, n) /\ Plain
    \/ \E key \in LbKeys, expired \in OldestIds(leaderboards) :
          LbLookup(key, expired) /\ Plain
    \/ \E e \in published.sent : username_change_pubsub(e) /\ Plain
SpecRename == InitBus /\ [][NextRename]_vars

\* changes of the ranked beatmap, beatmap requests, requests of two of its
\* leaderboards (whose modes and variants have each other's numbers), and
\* the leaderboard-refresh handler
NextRefresh ==
    \/ \E m \in LbModes, c \in 0..1 :
          StoreBeatmap("md5_ranked", RefreshEvent("md5_ranked", m, c)) /\ Plain
    \/ \E key \in {<<"md5_ranked", "VANILLA", 1>>, <<"md5_ranked", "RELAX", 0>>},
          expired \in OldestIds(leaderboards) :
          LbLookup(key, expired) /\ Plain
    \/ \E md5 \in Beatmaps : BeatmapLoad(md5) /\ Plain
    \/ \E e \in published.sent :
          refresh_leaderboard_pubsub(e) /\ Plain
    \/ RefreshBeatmapDone /\ Plain
    \/ RefreshDone /\ Plain
SpecRefresh == InitBus /\ [][NextRefresh]_vars

NextBonus ==
    \/ MoreScores /\ UNCHANGED <<cacheVars, subVars, lbVars, busVars, rep, thr,
                                  no_check_md5s, lbreq, rankq>>
    \/ CalcBonus /\ UNCHANGED <<cacheVars, subVars, lbVars, busVars, rep, thr,
                                 no_check_md5s, lbreq, rankq>>
SpecBonus == InitBonus /\ [][NextBonus]_vars

\* the threshold: a player with about a hundred qualifying rows, public or
\* restricted, whose Stats row holds the recomputed total
InitShortcut ==
    /\ CacheInit /\ _cache_limit = 1 /\ SubInit /\ BusInit /\ BonusInit
    /\ RankingInit /\ NoCheckInit /\ RankReadInit
    /\ \E n \in (TopLimit - MaxSpare)..(TopLimit + MaxSpare),
          k \in 0..MaxSpare, r \in BOOLEAN :
          LET rows == [v \in TopPPs |-> IF v = 2 THEN n - k
                                        ELSE IF v = 1 THEN k ELSE 0]
          IN thr = [NoTop EXCEPT !.rows = rows, !.restricted = r,
                                 !.stats.pp = TopFull(rows)]
ShortcutIdle ==
    UNCHANGED <<cacheVars, subVars, lbVars, busVars, rep, bonus, no_check_md5s,
                lbreq, rankq>>
NextShortcut ==
    \/ \E v \in TopPPs, old \in 0..MaxTopPP :
          TopSubmit(v, old) /\ ShortcutIdle
    \/ TopRestrict /\ ShortcutIdle
    \/ TopRecalcUser /\ ShortcutIdle
SpecShortcut == InitShortcut /\ [][NextShortcut]_vars


\* the handler, for players who are public and on the ranking boards when
\* the requests start
InitRank ==
    /\ CacheInit /\ _cache_limit = 1 /\ SubInit /\ BusInit /\ BonusInit
    /\ ShortcutInit /\ NoCheckInit /\ RankReadInit
    /\ ranking = [global  |-> Users \X CustomModes,
                  country |-> Users \X CustomModes]
SpecRank == InitRank /\ [][NextSeq]_vars

\* leaderboard requests of player 1 for the ranked beatmap (which the
\* lookup may or may not find), changes of the beatmap, and the handlers of
\* the beatmap-decache and leaderboard-refresh events
NextNoCheck ==
    \/ \E lr \in [user : {1}, gate : LbGates], found \in BOOLEAN :
          leaderboard_get_handler(lr, "md5_ranked", found)
    \/ \E e \in {DecacheEvent("md5_ranked"), RefreshEvent("md5_ranked", 0, 0)} :
          StoreBeatmap("md5_ranked", e) /\ Plain
    \/ BeatmapLoad("md5_ranked") /\ Plain
    \/ \E e \in published.sent : drop_bmap_cache_pubsub(e) /\ Plain
    \/ \E e \in published.sent : refresh_leaderboard_pubsub(e) /\ Plain
    \/ RefreshBeatmapDone /\ Plain
    \/ RefreshDone /\ Plain
SpecNoCheck == InitBus /\ [][NextNoCheck]_vars

\* the rank read: any board, then board writes and rank reads in any order
InitRankRead ==
    /\ CacheInit /\ _cache_limit = 1 /\ SubInit /\ BusInit /\ BonusInit
    /\ ShortcutInit /\ RankingInit /\ NoCheckInit
    /\ \E b \in RankBoards : rankq = [NoRankRead EXCEPT !.board = b]
NextRankRead ==
    \/ \E u \in RankUsers, k \in 0..MaxRankUsers : RankBoardZadd(u, k) /\ RankIdle
    \/ \E u \in RankUsers : update_rank(u) /\ RankIdle
SpecRankRead == InitRankRead /\ [][NextRankRead]_vars

Spec == SpecSeq


(***************************************************************************)
(* Properties.                                                             *)
(***************************************************************************)
\* two rows of one (player, beatmap, play mode, variant table)
SameBoard(r1, r2) ==
    /\ r1.userid = r2.userid /\ r1.beatmap_md5 = r2.beatmap_md5
    /\ r1.play_mode = r2.play_mode /\ r1.table = r2.table

BestRows(tbl) == {i \in 1..Len(tbl) : tbl[i].completed = BEST}

AtMostOneBest(tbl) ==
    \A i, j \in BestRows(tbl) : SameBoard(tbl[i], tbl[j]) => i = j

\* the ranking metric of a scoring variant: pp on a pp board, else raw score
VariantMetric(c_mode, pp, score) == IF uses_ppboard(c_mode) THEN pp ELSE score

\* C1: submissions run one after another through the handler leave at most
\* one BEST row per (player, beatmap, play mode, variant table).
C1_OneBestSequential == AtMostOneBest(scores)

\* C1 witness: a second pass of a player on a board has demoted the first and
\* is in the table as the board's BEST row of that player.
C1_Witness ==
    \E i, j \in 1..Len(scores) :
        /\ i < j /\ SameBoard(scores[i], scores[j])
        /\ scores[i].completed = COMPLETE /\ scores[j].completed = BEST
        /\ req[1].demoted = i /\ s[1].id = j

\* C2: the same holds when two submissions of one player on one board
\* interleave at their suspension points.
C2_OneBestInterleaved ==
    \A i \in BestRows(scores) : \A j \in BestRows(scores) :
        SameBoard(scores[i], scores[j]) => i = j

\* C3: a get that returns a value returns the value of an entry that has not
\* reached its expiry time (now < expire).
C3_GetNeverExpired ==
    (last.op = "get" /\ last.ret.found) =>
        \E i \in 1..Len(_cache) : _cache[i].key = last.key /\ now < _cache[i].expire

\* C4: after every call the cache holds at most _cache_limit entries.
C4_SizeWithinLimit == Len(_cache) <= _cache_limit

\* C4 witness: a cache() call whose insert took the size over the limit has
\* returned with the cache full.
C4_Witness ==
    /\ last.op = "cache"
    /\ Len(last.mid) > _cache_limit
    /\ Len(_cache) = _cache_limit

\* C5: the limit step of the maintenance pass after cache() keeps every
\* unexpired entry when the size is within the limit, and else removes the
\* oldest-inserted entries until the size equals the limit.
C5_LimitStepExact ==
    last.op = "cache" =>
        _cache = IF Len(last.mid) > _cache_limit
                 THEN SubSeq(last.mid, Len(last.mid) - _cache_limit + 1, Len(last.mid))
                 ELSE last.mid

\* C6: calc_completed classifies by the first matching rule: placement 1,
\* quit, not passed, no leaderboard, and else BEST or COMPLETE by the store.
C6_ClassificationOrder ==
    \A p \in Procs : pc[p] = "placement" =>
        /\ s[p].completed \in {BEST, COMPLETE, FAILED, QUIT}
        /\ (req[p].entry_placement = 1) => s[p].completed = BEST
        /\ (req[p].entry_placement # 1 /\ s[p].quit) => s[p].completed = QUIT
        /\ (req[p].entry_placement # 1 /\ ~s[p].quit /\ ~s[p].passed)
              => s[p].completed = FAILED
        /\ (req[p].entry_placement # 1 /\ ~s[p].quit /\ s[p].passed
            /\ ~has_leaderboard(s[p].md5)) => s[p].completed = COMPLETE
        /\ (req[p].entry_placement # 1 /\ ~s[p].quit /\ s[p].passed
            /\ has_leaderboard(s[p].md5)) => s[p].completed \in {BEST, COMPLETE}

\* C6 witness: a quit that did not pass, on the beatmap without leaderboard,
\* whose placement was 1 on entry, has been classified BEST.
C6_Witness ==
    /\ pc[1] = "placement" /\ req[1].entry_placement = 1
    /\ s[1].quit /\ ~s[1].passed /\ ~has_leaderboard(s[1].md5)
    /\ s[1].completed = BEST

\* C7: a passed, non-quit score on a beatmap with leaderboard becomes BEST,
\* with the player's BEST row demoted, exactly when its variant metric is
\* strictly above that row's or there is no such row; else it is COMPLETE and
\* the row stays BEST.
C7_VariantMetricDecides ==
    \A p \in Procs :
        (pc[p] = "placement" /\ s[p].passed /\ ~s[p].quit
         /\ has_leaderboard(s[p].md5)) =>
            LET mine == VariantMetric(s[p].c_mode, s[p].pp, s[p].score)
                of(i) == VariantMetric(s[p].c_mode, scores[i].pp, scores[i].score)
            IN /\ s[p].completed = BEST =>
                    /\ BestQuery(scores, s[p]) = {}
                    /\ req[p].demoted # 0 => of(req[p].demoted) < mine
               /\ s[p].completed = COMPLETE =>
                    /\ req[p].demoted = 0
                    /\ \E i \in BestQuery(scores, s[p]) : of(i) >= mine

\* C8: the placement is 0 for a play that did not pass or a beatmap without
\* leaderboard, and else one plus the number of BEST rows of other, publicly
\* visible players on the board with a strictly greater metric.
C8_PlacementCountsOthers ==
    \A p \in Procs : pc[p] = "insert" =>
        s[p].placement =
            IF ~s[p].passed \/ ~has_leaderboard(s[p].md5) THEN 0
            ELSE 1 + Cardinality({i \in BestRows(scores) :
                        /\ scores[i].userid # s[p].user_id
                        /\ users_privs[scores[i].userid]
                        /\ scores[i].beatmap_md5 = s[p].md5
                        /\ scores[i].play_mode = s[p].mode
                        /\ scores[i].table = db_table(s[p].c_mode)
                        /\ VariantMetric(s[p].c_mode, scores[i].pp, scores[i].score)
                             > VariantMetric(s[p].c_mode, s[p].pp, s[p].score)})

C10_FirstPlaceIffBest ==
    \A p \in Procs :
        (pc[p] = "done" /\ req[p].via = "handler" /\ s[p].id # 0) =>
            (req[p].first_place <=>
                (s[p].completed = BEST /\ s[p].placement = 1 /\ ~req[p].restricted))

\* the step in which slot 1 takes a new request
Taken == nsub' = nsub + 1

\* a step that changes nothing in the store nor in the process's caches
NothingMutated ==
    UNCHANGED <<scores, first_places, users_privs, stats_sql, rap_logs,
                priv_cache, announced, stats_objs, stats_cache>>

\* the reason of the rap_logs row a step adds, or "" when it adds none
LoggedReason(before, after) ==
    IF Len(after) > Len(before) THEN after[Len(after)].reason ELSE ""

\* C11: the first-place record is replaced and announced (and the cached
\* leaderboard updated) only for a player who is not restricted in the store
\* at that moment, a restriction issued by an anticheat check earlier in
\* the same submission included.
C11_NoSideEffectForRestricted ==
    [][\A p \in Procs :
          (pc[p] \in {"fp_delete", "fp_insert"} /\ pc'[p] # pc[p])
              => users_privs[s[p].user_id]]_vars

RECURSIVE RankedSum(_, _, _)
\* the raw scores of a player's BEST rows on ranked beatmaps, of one
\* variant, summed
RankedSum(tbl, u, c) ==
    IF tbl = <<>> THEN 0
    ELSE LET r == tbl[Len(tbl)]
             rest == RankedSum(SubSeq(tbl, 1, Len(tbl) - 1), u, c)
         IN IF /\ r.userid = u /\ r.table = db_table(c)
               /\ r.completed = BEST /\ IsRanked(r.beatmap_md5)
            THEN rest + r.score ELSE rest

\* C12: from empty tables and ranked score 0, once every submission so far
\* was accepted and handled to its end, a player's ranked score is the sum
\* of the raw scores of the player's BEST rows on ranked beatmaps.
C12_RankedScoreIsSumOfBests ==
    (Idle(1) /\ req[1].all_ok) =>
        \A u \in Users, c \in CustomModes :
            stats_sql[u][c].ranked_score = RankedSum(scores, u, c)

\* C13: interleaved submissions of one player on one mode and variant never
\* take the persisted play count, total score or total hits down.
C13_StatsNeverDecrease ==
    [][\A u \in Users, c \in CustomModes :
          /\ stats_sql'[u][c].playcount >= stats_sql[u][c].playcount
          /\ stats_sql'[u][c].total_score >= stats_sql[u][c].total_score
          /\ stats_sql'[u][c].total_hits >= stats_sql[u][c].total_hits]_vars

\* C14: a submission with a malformed beatmap hash or a payload that has
\* not 18 fields is answered "error: no" and changes nothing.
C14_MalformedRejected ==
    [][(Taken /\ req'[1].via = "handler" /\ req'[1].gate = "malformed") =>
          /\ pc'[1] = "done"
          /\ req'[1].resp = "error: no"
          /\ NothingMutated]_vars

\* C15: a score submission or a leaderboard request whose credential check
\* fails is answered "error: pass" and changes nothing: no score row, no
\* demotion, no Stats, no restriction.
C15_BadCredentialRejected ==
    [][(Taken /\ req'[1].gate = "badpass") =>
          /\ pc'[1] = "done"
          /\ req'[1].resp = "error: pass"
          /\ NothingMutated]_vars

\* C15 witness: with a score row stored, a leaderboard request with a bad
\* credential has been answered "error: pass".
C15_Witness ==
    /\ pc[1] = "done" /\ req[1].via = "leaderboard" /\ req[1].gate = "badpass"
    /\ req[1].resp = "error: pass" /\ Len(scores) = 1 /\ rap_logs = <<>>

\* C16: once calc_pp has run with the calculator raising, the score's
\* performance value is zero, for a fresh submission and for a persisted
\* score being recomputed.
C16_RaisingCalculatorGivesZero ==
    \A p \in Procs :
        (/\ req[p].via \in {"direct", "recalc_pp"} /\ req[p].calc_raises
         /\ pc[p] \notin {"submit", "recalc"}) => s[p].pp = 0

\* C17: the replay check restricts exactly for a passed play (passed, not
\* quit) sent without a replay, and the restriction tied to the replay is
\* issued by no other step.
C17_ReplayRestriction ==
    [][/\ \A p \in Procs :
            (pc[p] = "replay" /\ pc'[p] # "replay") =>
                ((LoggedReason(rap_logs, rap_logs') = NO_REPLAY)
                    <=> (s[p].passed /\ ~s[p].quit /\ ~req[p].replay))
       /\ (LoggedReason(rap_logs, rap_logs') = NO_REPLAY) =>
            \E p \in Procs : pc[p] = "replay" /\ pc'[p] # "replay"]_vars

\* C18: a request that trips an anticheat check or breaches the cap has its
\* account restricted and still has its score row inserted, and the cap
\* restriction comes only after the row is in and the Stats are saved.
C18_AnticheatFailsOpen ==
    /\ [](\A p \in Procs :
            (/\ pc[p] = "done" /\ req[p].via = "handler"
             /\ req[p].gate = "ok" /\ ~req[p].dupe) =>
                /\ (req[p].cheat \/ req[p].over_cap) =>
                      /\ s[p].id \in 1..Len(scores)
                      /\ scores[s[p].id] = Row(s[p])
                /\ (req[p].cheat \/ (req[p].over_cap /\ s[p].completed = BEST)) =>
                      ~users_privs[s[p].user_id])
    /\ [][(LoggedReason(rap_logs, rap_logs') = PP_CAP) =>
             \E p \in Procs :
                /\ pc[p] = "finish" /\ s[p].id \in 1..Len(scores)
                /\ req[p].saved
                /\ stats_sql[s[p].user_id][s[p].c_mode] = stats_objs[req[p].stats]]_vars

\* the second request of a run has been handled: a pass (not a quit) of a
\* player B on a board where the first row, of another player A, was BEST
\* when it went in, with a ranking metric strictly above that row's
SecondPlayerOvertakes ==
    /\ pc[1] = "done" /\ req[1].via = "handler"
    /\ Len(scores) = 2 /\ s[1].id = 2
    /\ s[1].passed /\ ~s[1].quit /\ has_leaderboard(s[1].md5)
    /\ scores[1].userid # scores[2].userid
    /\ scores[1].beatmap_md5 = scores[2].beatmap_md5
    /\ scores[1].play_mode = scores[2].play_mode
    /\ scores[1].table = scores[2].table
    /\ scores[1].completed \in {BEST, COMPLETE}
    /\ VariantMetric(s[1].c_mode, scores[2].pp, scores[2].score)
         > VariantMetric(s[1].c_mode, scores[1].pp, scores[1].score)

\* C19 as claimed: B's pass leaves A's row COMPLETE and B's row BEST with
\* placement 1.
C19_OvertakenRowDemoted ==
    SecondPlayerOvertakes =>
        /\ scores[1].completed = COMPLETE
        /\ scores[2].completed = BEST
        /\ s[1].placement = 1

\* C19 amended: B's pass leaves A's row BEST, and B's row is BEST with
\* placement 1.
C19_OvertakenRowStaysBest ==
    SecondPlayerOvertakes =>
        /\ scores[1].completed = BEST
        /\ scores[2].completed = BEST
        /\ s[1].placement = 1

\* C19 witness: player 2 has overtaken player 1 on the pp board.
C19_Witness ==
    /\ SecondPlayerOvertakes
    /\ scores[1].userid = 1 /\ scores[2].userid = 2
    /\ uses_ppboard(s[1].c_mode)

\* C20: the cached leaderboard never holds two rows of one player, and after
\* insert_user_score(s) its one row of s.user_id is s.
C20_OneRowPerPlayer ==
    /\ \A i, j \in 1..Len(lb.scores) :
          lb.scores[i].user_id = lb.scores[j].user_id => i = j
    /\ lb.inserted.user_id # 0 =>
          \E i \in 1..Len(lb.scores) : lb.scores[i] = lb.inserted

\* C20 witness: an insert has replaced the player's prior row, with another
\* player's row on the leaderboard.
C20_Witness ==
    /\ lb.replaced /\ Len(lb.scores) >= 2
    /\ \E i \in 1..Len(lb.scores) : lb.scores[i] = lb.inserted

\* C27: with a limit of at least 1, right after cache(k, v) has returned,
\* get(k) returns v: the maintenance pass has not removed the entry just
\* written, new or overwritten.
C27_ReadAfterWrite ==
    (last.op = "cache" /\ _cache_limit >= 1) =>
        CacheGet(_cache, last.key) = Found(last.arg)

\* C27 witness: cache() has overwritten, with another value, the oldest of
\* at least two entries, and the entry is there with the new value.
C27_Witness ==
    /\ last.op = "cache" /\ Len(_cache) >= 2 /\ _cache[1].key = last.key
    /\ CacheGet(last.before, last.key).found
    /\ CacheGet(last.before, last.key) # Found(last.arg)
    /\ CacheGet(_cache, last.key) = Found(last.arg)

\* the step is a call of the Cache operation (a call that repeats the last
\* one on the same dict leaves last as it is, and the dict with it)
Called(op) == last' # last /\ last'.op = op

C29_PrefixRemovalExact ==
    [][Called("remove_all_elements") =>
          LET p == last'.key.first
              stays(e) == ~(e.key.tuple /\ e.key.first = p)
          IN /\ \A i \in 1..Len(_cache') : stays(_cache'[i])
             /\ \A i \in 1..Len(_cache) :
                   stays(_cache[i]) => \E j \in 1..Len(_cache') : _cache'[j] = _cache[i]
             /\ \A j \in 1..Len(_cache') : \E i \in 1..Len(_cache) : _cache[i] = _cache'[j]
             /\ \A i, j \in 1..Len(_cache') :
                   i < j => \E a, b \in 1..Len(_cache) :
                               a < b /\ _cache[a] = _cache'[i] /\ _cache[b] = _cache'[j]]_vars

\* C29 witness: remove_all_elements("p") has removed the entry of a tuple key
\* that starts with "p" and left the entry of the scalar key "p".
C29_Witness ==
    /\ last.op = "remove_all_elements" /\ last.key.first = "p"
    /\ TupleKey("p", 1) \in KeysOf(last.before)
    /\ ScalarKey("p") \in KeysOf(last.before)
    /\ KeysOf(_cache) = {ScalarKey("p")}

\* C30: a submission whose score row has been inserted goes on to update and
\* save the player's Stats and to send the new-score notification (the last
\* thing before the panels are returned), whatever its classification.
C30_InsertedRunsToCompletion ==
    \A p \in Procs :
        (pc[p] = "done" /\ req[p].via = "handler" /\ s[p].id # 0) =>
            /\ req[p].saved
            /\ req[p].resp = "ok"

\* C24: once a recalc-player message has been handled, the stats row of
\* every variant of the player holds the recomputed performance total (with
\* it, accuracy and max combo, set and saved the same way).
C24_RecalcUserPersisted ==
    \A p \in Procs :
        (pc[p] = "done" /\ req[p].via = "recalc_user") =>
            \A c \in CustomModes :
                stats_sql[req[p].user][c].pp =
                    recalc_pp_acc_full(scores, req[p].user, 0, c)

\* C26: the count c the bonus term 416.6667 * (1 - 0.9994^c) is computed
\* from never exceeds 25,397, however many qualifying rows the player has.
C26_BonusCountCapped == bonus.calls = 1 => bonus.count <= BonusCap

\* C21: when a ban-toggle handler for a player now not publicly visible has
\* ended, every leaderboard that was cached when it began (and still is) has
\* been refreshed, whatever other requests did to the cache meanwhile.
C21_BanRefreshesAll ==
    (/\ ev.pc = "done"
     /\ ev.event.kind = "ban-toggle"
     /\ ~priv_cache[ev.event.user])
        => (ev.start \cap LiveIds(leaderboards)) \subseteq ev.refreshed

\* the handled rename events are the published.handled; the rename events
\* of player 1 published so far
RenamesSent == {e \in published.sent : e.kind = "rename" /\ e.user = 1}
\* C22: once two rename events of a player have all been handled, in any
\* order and any number of times, the username cache and every cached
\* leaderboard row of the player show the name the store holds.
C22_RenamesConverge ==
    (/\ Cardinality(RenamesSent) = 2
     /\ RenamesSent \subseteq published.handled
     /\ HandlerIdle)
        => /\ name[1] = users_sql[1].username
           /\ \A i \in 1..Len(leaderboards) :
                 \A r \in leaderboards[i].rows :
                    r.user_id = 1 => r.username = users_sql[1].username

\* C23: an event handled a second time, with nothing but the two handlings
\* happening since the first began, leaves every cache as the first
\* handling left it.
C23_SecondHandlingChangesNothing ==
    (ev.pc = "done" /\ rep.again /\ rep.quiet) => Caches = rep.snap
\* a ban has been handled twice on end, the leaderboards refreshed each time
C23_Witness ==
    /\ ev.pc = "done" /\ rep.again /\ rep.quiet
    /\ ev.event.kind = "ban-toggle"
    /\ ev.refreshed # {}
    /\ Caches = rep.snap

\* the key a leaderboard-refresh event names
KeyOf(e) == <<e.md5, CustomModeOf(e.c_mode), e.mode>>
\* a step of the handler: the store, the leaderboard requests and the beatmap
\* requests publish, build and load
HandlerStep ==
    /\ published' = published
    /\ lb_built' = lb_built
    /\ beatmaps' \subseteq beatmaps
\* C25: every step of a leaderboard-refresh handler leaves the beatmap of
\* the hash uncached as the handler starts, creates or removes no
\* leaderboard entry and changes none but the one cached under
\* (hash, variant, mode), whose metadata it re-reads first and whose score
\* list it rebuilds next; with no such leaderboard cached it ends at once.
C25_RefreshExactlyNamed ==
    [][(HandlerStep /\ ev'.event.kind = "leaderboard-refresh") =>
        LET e == ev'.event
            K == KeyOf(e)
        IN /\ Len(leaderboards') = Len(leaderboards)
           /\ \A i \in 1..Len(leaderboards) :
                 /\ IsLive(leaderboards'[i]) = IsLive(leaderboards[i])
                 /\ (IsLive(leaderboards[i]) /\ leaderboards[i].key # K)
                       => leaderboards'[i] = leaderboards[i]
                 /\ leaderboards'[i].key = leaderboards[i].key
           /\ HandlerIdle =>
                 /\ e.md5 \notin beatmaps'
                 /\ leaderboards' = leaderboards
                 /\ IF K \in LiveKeys(leaderboards)
                    THEN /\ ev'.pc = "lb_meta"
                         /\ ev'.cur = leaderboards[SlotOf(leaderboards, K)].id
                    ELSE ev'.pc = "done"
           /\ ev.pc = "lb_meta" =>
                 /\ ev'.pc = "lb_rows"
                 /\ \A i \in 1..Len(leaderboards) :
                       leaderboards[i].id = ev.cur /\ IsLive(leaderboards[i])
                          => /\ leaderboards'[i].meta = bmap_sql[e.md5]
                             /\ leaderboards'[i].rows = leaderboards[i].rows
           /\ ev.pc = "lb_rows" =>
                 /\ ev'.pc = "done"
                 /\ \A i \in 1..Len(leaderboards) :
                       leaderboards[i].id = ev.cur /\ IsLive(leaderboards[i])
                          => /\ leaderboards'[i].rows =
                                   LbRows(scores, users_privs, users_sql, K)
                             /\ leaderboards'[i].meta = leaderboards[i].meta
      ]_vars
\* a refresh has rebuilt a stale score list of the named leaderboard while
\* another leaderboard is cached
C25_Witness ==
    /\ ev.pc = "done" /\ ev.event.kind = "leaderboard-refresh"
    /\ ev.refreshed # {}
    /\ DictLen(leaderboards) = 2
    /\ \E i \in 1..Len(leaderboards) :
          /\ leaderboards[i].id \in ev.refreshed
          /\ leaderboards[i].meta > 0
          /\ leaderboards[i].rows = LbRows(scores, users_privs, users_sql,
                                           KeyOf(ev.event))

\* the classifications a persisted row may carry
Classes == {BEST, COMPLETE, FAILED, QUIT}
C32_ShortcutEqualsFull ==
    thr.last = "shortcut" => thr.stats.pp = TopFull(thr.rows)

RECURSIVE RawSum(_, _, _)
\* the raw scores of a player's rows in one variant's table, summed
RawSum(tbl, u, c) ==
    IF tbl = <<>> THEN 0
    ELSE LET r == tbl[Len(tbl)]
             rest == RawSum(SubSeq(tbl, 1, Len(tbl) - 1), u, c)
         IN IF r.userid = u /\ r.table = db_table(c) THEN rest + r.score ELSE rest

\* the rows of a player in one variant's table
RowsOf(tbl, u, c) ==
    {i \in 1..Len(tbl) : tbl[i].userid = u /\ tbl[i].table = db_table(c)}

\* C33: from play count 0 and total score 0, once the interleaved
\* submissions of a player have all been accepted and handled to their end,
\* the persisted play count is their number and the persisted total score
\* the sum of their raw scores.
C33_NoIncrementLost ==
    (\A p \in Procs : Idle(p)) =>
        \A c \in CustomModes :
            /\ stats_sql[1][c].playcount = Cardinality(RowsOf(scores, 1, c))
            /\ stats_sql[1][c].total_score = RawSum(scores, 1, c)

\* the tuple the duplicate check compares, of a persisted row
DupeTuple(r) == <<r.table, r.userid, r.beatmap_md5, r.score, r.play_mode, r.mods>>

\* C34: with submissions handled concurrently, no two persisted score rows
\* have the same (player, beatmap, raw score, mode, mods).
C34_NoConcurrentDuplicates ==
    \A i, j \in 1..Len(scores) :
        i # j => DupeTuple(scores[i]) # DupeTuple(scores[j])

\* C35: after any first-place flows, run one after another or interleaved,
\* first_places holds at most one record for a (beatmap, mode, variant).
C35_OneFirstPlacePerKey ==
    \A a, b \in first_places :
        (a.beatmap_md5 = b.beatmap_md5 /\ a.mode = b.mode /\ a.relax = b.relax)
            => a = b

\* is the player on a ranking board
Ranked(u) == \E c \in CustomModes : <<u, c>> \in ranking.global \cup ranking.country

\* C36: when the handler has returned, no player the store has restricted
\* is on a ranking board; and no step of a request puts a player on a board
\* whom the store has restricted.
C36_RestrictedNotRanked ==
    /\ [](\A p \in Procs : pc[p] = "done" =>
             \A u \in Users : ~users_privs[u] => ~Ranked(u))
    /\ [][\A u \in Users :
             (~users_privs'[u] /\ ~Ranked(u)) => ~Ranked(u)']_vars

\* C36 witness: a BEST submission of a player who was public and ranked when
\* it started tripped an anticheat check; the handler is done with the
\* player restricted and off the boards.
C36_Witness ==
    /\ pc[1] = "done" /\ req[1].via = "handler" /\ req[1].cheat
    /\ ~req[1].restricted /\ s[1].completed = BEST /\ s[1].id # 0
    /\ ~users_privs[s[1].user_id] /\ ~Ranked(s[1].user_id)

\* C37: a persisted row's classification changes only from BEST to COMPLETE,
\* and only in the calc_completed step of a submission (not yet inserted) of
\* the same player on the same beatmap, mode and variant table; nothing else
\* of a persisted row changes and no row is removed.
C37_OnlyBestDemoted ==
    [][/\ Len(scores') >= Len(scores)
       /\ \A i \in 1..Len(scores) :
             /\ [scores'[i] EXCEPT !.completed = scores[i].completed] = scores[i]
             /\ (scores'[i].completed # scores[i].completed) =>
                   /\ scores[i].completed = BEST
                   /\ scores'[i].completed = COMPLETE
                   /\ \E p \in Procs :
                         /\ pc[p] = "submit" /\ pc'[p] = "remains"
                         /\ s[p].id = 0
                         /\ s[p].user_id = scores[i].userid
                         /\ s[p].md5 = scores[i].beatmap_md5
                         /\ s[p].mode = scores[i].play_mode
                         /\ db_table(s[p].c_mode) = scores[i].table]_vars

\* C37 witness: a submission has demoted the player's BEST row on the board
\* and its own row is the BEST one.
C37_Witness ==
    /\ pc[1] = "done" /\ req[1].demoted = 1 /\ Len(scores) = 2
    /\ scores[1].completed = COMPLETE /\ scores[2].completed = BEST
    /\ scores[1].userid = scores[2].userid /\ s[1].id = 2

\* C38: no step of a submission classified FAILED or QUIT changes a ranked
\* score (in a Stats object or a stats row), the set of BEST rows, the
\* first_places table, or recomputes a performance total.
C38_FailedOrQuitFrame ==
    [][\A p \in Procs :
          (pc[p] \notin {"idle", "done"} /\ pc'[p] # pc[p]
           /\ req[p].via = "handler" /\ s[p].completed \in {FAILED, QUIT}) =>
              /\ first_places' = first_places
              /\ announced' = announced
              /\ BestRows(scores') = BestRows(scores)
              /\ pc'[p] # "save"
              /\ \A u \in Users, c \in CustomModes :
                    stats_sql'[u][c].ranked_score = stats_sql[u][c].ranked_score
              /\ \A i \in 1..Len(stats_objs) :
                    stats_objs'[i].ranked_score = stats_objs[i].ranked_score]_vars

\* C39 as stated: a hash once in the no-check set stays in it, and every
\* later request for it that has passed the credential check is answered
\* with the status-only header, without a lookup.
C39_NoCheckAnswersAuthenticated ==
    /\ [][no_check_md5s \subseteq no_check_md5s']_vars
    /\ []((lbreq.known /\ lbreq.gate # "badpass") =>
             (lbreq.resp = StatusHeader /\ ~lbreq.lookup))

\* C39, amended: a hash once in the no-check set stays in it, and every
\* later request for it that has passed the credential check and the client
\* version check is answered with the status-only header, without a lookup,
\* also after a beatmap-decache or leaderboard-refresh event for the hash.
C39_NoCheckAnswersCurrentClients ==
    /\ [][no_check_md5s \subseteq no_check_md5s']_vars
    /\ []((lbreq.known /\ lbreq.gate = "ok") =>
             (lbreq.resp = StatusHeader /\ ~lbreq.lookup))
    /\ [][(lbreq'.n # lbreq.n /\ lbreq'.known /\ lbreq'.gate = "ok") =>
             UNCHANGED <<leaderboards, lb_built, beatmaps>>]_vars

\* C39 witness: after the handler of an event for the hash has ended, a
\* request for the hash, in the set since an earlier request, has been
\* answered with the status-only header.
C39_Witness ==
    /\ lbreq.known /\ lbreq.gate = "ok" /\ lbreq.after
    /\ lbreq.md5 \in no_check_md5s
    /\ lbreq.resp = StatusHeader /\ ~lbreq.lookup


\* C40: get_rank_redis returns the player's zero-based position on the board
\* plus one for every player on it, the player at position 0 (rank 1)
\* included, and None only for a player who is not on the board.
C40_RankIsPositionPlusOne ==
    rankq.reads > 0 =>
        /\ rankq.pos # Nil => rankq.rank = rankq.pos + 1
        /\ rankq.rank = None => rankq.pos = Nil

====
